---- MODULE Spec2Model ----
(***************************************************************************)
(* Model of the BingX TypeScript helpers of TVTelegramBingX:               *)
(*   src/exchange/bingx/contracts.ts      normalizeContractFilters         *)
(*   src/exchange/bingx/accountClient.ts  signQuery, getSigned             *)
(*   src/features/report/report.ts        assertSuccess, fetchReport       *)
(*   src/exchange/bingx/errors.ts         formatBingxError                 *)
(*   src/unnamed/part_001                 buildSignalMessage               *)
(* and of the position-protection monitor of the specification.            *)
(* JavaScript strings are TLA+ strings (TLC evaluates Len, \o and SubSeq   *)
(* on them); JavaScript numbers are decimal records m * 10^e, which is     *)
(* what Number() and Number.prototype.toString() yield for the short       *)
(* decimals of the bounded inputs.                                         *)
(***************************************************************************)
EXTENDS Integers, Sequences, FiniteSets, TLC

VARIABLES
    raw,        \* normalizeContractFilters: the raw exchange record
    result,     \* its outcome on raw (returned filters, or the thrown error)
    again,      \* its outcome on the filters it returned
    fpc,        \* "start" -> "normalized" -> "renormalized"
    sqA,        \* signQuery: a parameter object (pairs in insertion order)
    sqB,        \* the same pairs inserted in another order
    sqOutA,     \* signQuery(sqA)
    sqOutB,     \* signQuery(sqB)
    sqpc,       \* "start" -> "signed"
    apiKey,     \* accountClient.ts API_KEY
    apiSecret,  \* accountClient.ts API_SECRET
    hasFetch,   \* whether globalThis.fetch exists
    params,     \* getSigned: the caller's params (pairs in insertion order)
    path,       \* getSigned: the caller's path
    now,        \* the value Date.now() returns in this call
    sentQuery,  \* the query string put in the requested URL
    requests,   \* URLs handed to fetch
    log,        \* lines written with console.log
    signature,  \* the HMAC hex digest computed in this call
    outcome,    \* what the getSigned promise settled with
    gpc,        \* "start" -> "fetching" -> "resolved" | "rejected"
    rOptions,   \* fetchReport: its options argument
    rCalls,     \* the promise of each getSigned call it makes
    rAsserted,  \* what assertSuccess did with each response
    rOutcome,   \* what the fetchReport promise settled with
    rpc,        \* "start" -> "awaitBoth" -> "awaitOpenOrders" -> "done"
    feArgs,     \* formatBingxError: method, url, payload, options.requestPath
    feOut,      \* the string it returns
    fepc,       \* "start" -> "formatted"
    smOpts,     \* buildSignalMessage: its opts argument
    smNow,      \* what new Date() gives during the call
    smOut,      \* the string it returns
    smpc,       \* "start" -> "built"
    position,   \* PositionProtectionMonitor: the Position record
    pstate,     \* "ACTIVE" -> "STOPPED" | "FLAT"
    markPrice,  \* the mark price of the last update
    orders,     \* the protective orders submitted, oldest first
    dgSeen,     \* DeduplicationGuard: the recorded keys with their expiry
    dgNow,      \* the time, in seconds
    dgLog,      \* the shouldProcess calls made, with their answers
    dgOrders,   \* the order submissions the alerts led to
    szIn,       \* QuantitySizer: margin, leverage, mark price and filters
    szOut,      \* the quantity it returns, or its SizingError
    szpc,       \* "start" -> "sized"
    qQueue,     \* per symbol, the order submissions waiting for the worker
    qInFlight,  \* the order submissions in flight
    qIssued     \* how many submissions have been requested so far

filterVars == <<raw, result, again, fpc>>
signQueryVars == <<sqA, sqB, sqOutA, sqOutB, sqpc>>
envVars == <<apiKey, apiSecret, hasFetch>>
getSignedVars == <<params, path, now, sentQuery, requests, log, signature,
                   outcome, gpc>>
reportVars == <<rOptions, rCalls, rAsserted, rOutcome, rpc>>
formatVars == <<feArgs, feOut, fepc>>
messageVars == <<smOpts, smNow, smOut, smpc>>
monitorVars == <<position, pstate, markPrice, orders>>
dedupVars == <<dgSeen, dgNow, dgLog, dgOrders>>
sizerVars == <<szIn, szOut, szpc>>
queueVars == <<qQueue, qInFlight, qIssued>>
engineVars == <<dedupVars, sizerVars, queueVars>>
codeVars == <<filterVars, signQueryVars, envVars, getSignedVars, reportVars,
              formatVars, messageVars>>
vars == <<codeVars, monitorVars, engineVars>>

\* What the actions of one part leave alone of the other parts.
besideClient == <<formatVars, messageVars, monitorVars, engineVars>>
besideFilters ==
    <<signQueryVars, envVars, getSignedVars, reportVars, besideClient>>
besideSignQuery ==
    <<filterVars, envVars, getSignedVars, reportVars, besideClient>>
besideSigned == <<filterVars, signQueryVars, envVars, reportVars, besideClient>>
besideReport == <<filterVars, signQueryVars, envVars, besideClient>>
besideFormat ==
    <<filterVars, signQueryVars, envVars, getSignedVars, reportVars,
      messageVars, monitorVars, engineVars>>
besideMessage ==
    <<filterVars, signQueryVars, envVars, getSignedVars, reportVars,
      formatVars, monitorVars, engineVars>>
besideMonitor == <<codeVars, engineVars>>
besideDedup == <<codeVars, monitorVars, sizerVars, queueVars>>
besideSizer == <<codeVars, monitorVars, dedupVars, queueVars>>
besideQueue == <<codeVars, monitorVars, dedupVars, sizerVars>>

(***************************************************************************)
(* Bounds of the model.                                                    *)
(***************************************************************************)
\* Largest small precision value offered as quantityPrecision/pricePrecision.
MaxPrecision == 7

\* Most properties of a parameter object handed to signQuery.
MaxKeys == 3

\* Most properties of the params a caller hands to getSigned.
MaxParams == 2

(***************************************************************************)
(* Characters and strings.                                                 *)
(***************************************************************************)
\* Printable ASCII in code-unit order, without the backtick (96), which no
\* modelled string holds.
Ascii ==
    " !\"#$%&'()*+,-./0123456789:;<=>?@ABCDEFGHIJKLMNOPQRSTUVWXYZ[\\]^_abcdefghijklmnopqrstuvwxyz{|}~"

CharAt(s, i) == SubSeq(s, i, i)

\* The UTF-16 code unit of a character.
Ord(c) ==
    LET i == CHOOSE j \in 1..Len(Ascii) : CharAt(Ascii, j) = c
    IN  IF i <= 64 THEN 31 + i ELSE 32 + i

Digits == "0123456789"

IsDigit(c) == \E i \in 1..10 : CharAt(Digits, i) = c

DigitVal(c) == (CHOOSE i \in 1..10 : CharAt(Digits, i) = c) - 1

DigitChar(d) == CharAt(Digits, d + 1)

\* c repeated n times (by halving, to keep the evaluation shallow)
RECURSIVE Repeat(_, _)
Repeat(c, n) ==
    IF n <= 0 THEN ""
    ELSE IF n = 1 THEN c
    ELSE LET half == Repeat(c, n \div 2)
         IN  half \o half \o (IF n % 2 = 1 THEN c ELSE "")

RECURSIVE AllDigits(_)
AllDigits(s) == s = "" \/ (IsDigit(Head(s)) /\ AllDigits(Tail(s)))

\* Index, from i on, of the first character of s that is in the string cs,
\* 0 if none.
FirstOf(s, cs, i) ==
    LET hits == {j \in i..Len(s) :
                    \E n \in 1..Len(cs) : CharAt(cs, n) = CharAt(s, j)}
    IN  IF hits = {} THEN 0 ELSE CHOOSE j \in hits : \A n \in hits : j <= n

\* Whether t occurs in s as a contiguous substring.
Contains(s, t) ==
    \E i \in 1..(Len(s) - Len(t) + 1) : SubSeq(s, i, i + Len(t) - 1) = t

\* What follows the last occurrence of the character c in s.
AfterLast(s, c) ==
    LET at == {i \in 1..Len(s) : CharAt(s, i) = c}
    IN  IF at = {} THEN s
        ELSE SubSeq(s, (CHOOSE i \in at : \A j \in at : j <= i) + 1, Len(s))

EndsWith(s, t) ==
    Len(s) >= Len(t) /\ SubSeq(s, Len(s) - Len(t) + 1, Len(s)) = t

StartsWith(s, t) == Len(s) >= Len(t) /\ SubSeq(s, 1, Len(t)) = t

\* String.prototype.trim over the whitespace of the alphabet (the space).
RECURSIVE TrimLeft(_)
TrimLeft(s) == IF s # "" /\ Head(s) = " " THEN TrimLeft(Tail(s)) ELSE s

RECURSIVE TrimRight(_)
TrimRight(s) ==
    IF s # "" /\ CharAt(s, Len(s)) = " "
    THEN TrimRight(SubSeq(s, 1, Len(s) - 1)) ELSE s

Trim(s) == TrimRight(TrimLeft(s))

(***************************************************************************)
(* JavaScript numbers.  A finite number is (-1)^neg * m * 10^e with m not  *)
(* a multiple of 10 (0 is m = 0, e = 0).  The double range is kept: a      *)
(* magnitude of 10^309 or more is Infinity.                                *)
(***************************************************************************)
\* Largest n for which 10^n is a finite double (Math.pow(10, 309) is Infinity).
DoubleMaxExp10 == 308

Zero == [k |-> "fin", neg |-> FALSE, m |-> 0, e |-> 0]

NaN == [k |-> "nan", neg |-> FALSE, m |-> 0, e |-> 0]

Infinity(neg) == [k |-> "inf", neg |-> neg, m |-> 0, e |-> 0]

RECURSIVE NumDigits(_)
NumDigits(m) == IF m < 10 THEN 1 ELSE 1 + NumDigits(m \div 10)

RECURSIVE Pow10Int(_)
Pow10Int(n) == IF n <= 0 THEN 1 ELSE 10 * Pow10Int(n - 1)

RECURSIVE StripZeros(_, _)
StripZeros(m, e) ==
    IF m = 0 THEN <<0, 0>>
    ELSE IF m % 10 = 0 THEN StripZeros(m \div 10, e + 1)
    ELSE <<m, e>>

\* The double nearest to (-1)^neg * m * 10^e.
MakeNumber(neg, m, e) ==
    LET c == StripZeros(m, e)
    IN  IF c[1] = 0 THEN Zero
        ELSE IF NumDigits(c[1]) + c[2] - 1 > DoubleMaxExp10 THEN Infinity(neg)
        ELSE [k |-> "fin", neg |-> neg, m |-> c[1], e |-> c[2]]

Num(m, e) == MakeNumber(FALSE, m, e)

Neg(m, e) == MakeNumber(TRUE, m, e)

\* Number.isFinite
IsFinite(n) == n.k = "fin"

\* n > 0 and n >= 0 (both false of NaN)
GtZero(n) == (n.k = "fin" /\ ~n.neg /\ n.m > 0) \/ (n.k = "inf" /\ ~n.neg)

GeZero(n) == (n.k = "fin" /\ (~n.neg \/ n.m = 0)) \/ (n.k = "inf" /\ ~n.neg)

\* Math.trunc
MathTrunc(n) ==
    IF n.k # "fin" \/ n.e >= 0 THEN n
    ELSE IF -n.e >= NumDigits(n.m) THEN Zero
    ELSE MakeNumber(n.neg, n.m \div Pow10Int(-n.e), 0)

RECURSIVE NatToStr(_)
NatToStr(m) ==
    IF m < 10 THEN DigitChar(m) ELSE NatToStr(m \div 10) \o DigitChar(m % 10)

RECURSIVE StrToNat(_)
StrToNat(s) ==
    IF s = "" THEN 0
    ELSE 10 * StrToNat(SubSeq(s, 1, Len(s) - 1)) + DigitVal(CharAt(s, Len(s)))

\* The digits ds of a non-zero magnitude whose decimal point falls after
\* digit n, written as Number::toString writes them.
FormatDigits(ds, n) ==
    IF Len(ds) <= n /\ n <= 21 THEN ds \o Repeat("0", n - Len(ds))
    ELSE IF 0 < n /\ n <= 21
         THEN SubSeq(ds, 1, n) \o "." \o SubSeq(ds, n + 1, Len(ds))
    ELSE IF -6 < n /\ n <= 0 THEN "0." \o Repeat("0", -n) \o ds
    ELSE (IF Len(ds) = 1 THEN ds
          ELSE SubSeq(ds, 1, 1) \o "." \o SubSeq(ds, 2, Len(ds)))
         \o "e"
         \o (IF n - 1 < 0 THEN "-" \o NatToStr(1 - n) ELSE "+" \o NatToStr(n - 1))

\* Number.prototype.toString(): plain decimal when the decimal point falls
\* within -6 < n <= 21, exponent notation otherwise (ECMA-262 Number::toString).
NumToString(x) ==
    IF x.k = "nan" THEN "NaN"
    ELSE IF x.k = "inf" THEN (IF x.neg THEN "-Infinity" ELSE "Infinity")
    ELSE IF x.m = 0 THEN "0"
    ELSE (IF x.neg THEN "-" ELSE "")
         \o FormatDigits(NatToStr(x.m), NumDigits(x.m) + x.e)

\* StrDecimalLiteral: integer part ip, fraction fp, exponent digits edigits.
ParseDecimal(ip, fp, edigits, eneg, hasExp, neg) ==
    IF ~(/\ AllDigits(ip) /\ AllDigits(fp) /\ (ip # "" \/ fp # "")
         /\ (hasExp => (edigits # "" /\ AllDigits(edigits))))
    THEN NaN
    ELSE MakeNumber(neg, StrToNat(ip \o fp),
                    (IF ~hasExp THEN 0
                     ELSE IF eneg THEN -StrToNat(edigits)
                     ELSE StrToNat(edigits)) - Len(fp))

\* The mantissa split at its decimal point (dot = 0: none).
ParseMantissa(mant, dot, etxt, hasExp, neg) ==
    ParseDecimal(IF dot = 0 THEN mant ELSE SubSeq(mant, 1, dot - 1),
                 IF dot = 0 THEN "" ELSE SubSeq(mant, dot + 1, Len(mant)),
                 IF etxt # "" /\ (Head(etxt) = "-" \/ Head(etxt) = "+")
                 THEN Tail(etxt) ELSE etxt,
                 etxt # "" /\ Head(etxt) = "-", hasExp, neg)

\* The unsigned literal split at its exponent mark (epos = 0: none).
ParseExponent(body, epos, neg) ==
    ParseMantissa(IF epos = 0 THEN body ELSE SubSeq(body, 1, epos - 1),
                  FirstOf(IF epos = 0 THEN body ELSE SubSeq(body, 1, epos - 1),
                          ".", 1),
                  IF epos = 0 THEN "" ELSE SubSeq(body, epos + 1, Len(body)),
                  epos # 0, neg)

ParseUnsigned(body, neg) ==
    IF body = "Infinity" THEN Infinity(neg)
    ELSE ParseExponent(body, FirstOf(body, "eE", 1), neg)

ParseTrimmed(t) ==
    IF t = "" THEN Zero
    ELSE ParseUnsigned(IF Head(t) = "-" \/ Head(t) = "+" THEN Tail(t) ELSE t,
                       Head(t) = "-")

\* Number(string): StringToNumber over decimal literals and Infinity; the
\* alphabet of the inputs holds no hex, octal or binary literal.
ParseNumber(s) == ParseTrimmed(Trim(s))

(***************************************************************************)
(* JavaScript values, as far as the raw records hold them.                 *)
(***************************************************************************)
Undefined == [t |-> "undefined", n |-> Zero, s |-> ""]

NullV == [t |-> "null", n |-> Zero, s |-> ""]

NumV(n) == [t |-> "number", n |-> n, s |-> ""]

StrV(s) == [t |-> "string", n |-> Zero, s |-> s]

BoolV(b) ==
    [t |-> "boolean", n |-> Zero, s |-> IF b THEN "true" ELSE "false"]

\* The values JSON.parse yields: t the JavaScript type ("array" apart from
\* "object"), n the number, s the string (or true/false), o the elements or
\* the [k, v] members in source order.
JUndefined == [t |-> "undefined", n |-> Zero, s |-> "", o |-> <<>>]

JNull == [t |-> "null", n |-> Zero, s |-> "", o |-> <<>>]

JBool(b) ==
    [t |-> "boolean", n |-> Zero, s |-> IF b THEN "true" ELSE "false",
     o |-> <<>>]

JNum(n) == [t |-> "number", n |-> n, s |-> "", o |-> <<>>]

JStr(s) == [t |-> "string", n |-> Zero, s |-> s, o |-> <<>>]

JArr(items) == [t |-> "array", n |-> Zero, s |-> "", o |-> items]

JObj(members) == [t |-> "object", n |-> Zero, s |-> "", o |-> members]

\* !v for a value of type string | undefined
Falsy(v) == v.t = "undefined" \/ (v.t = "string" /\ v.s = "")

\* Number(v)
ToNumber(v) ==
    IF v.t = "undefined" THEN NaN
    ELSE IF v.t = "null" THEN Zero
    ELSE IF v.t = "number" THEN v.n
    ELSE ParseNumber(v.s)

(***************************************************************************)
(* contracts.ts                                                            *)
(***************************************************************************)
\* Math.pow(10, n) for an integer n >= 0: Infinity once 10^n leaves the doubles.
MathPow10(n) ==
    IF NumDigits(n.m) + n.e > 4 \/ n.m * Pow10Int(n.e) > DoubleMaxExp10
    THEN Infinity(FALSE)
    ELSE Num(1, n.m * Pow10Int(n.e))

\* 1 / p for p a power of ten or Infinity
OneOver(p) == IF p.k = "inf" THEN Zero ELSE Num(1, -p.e)

\* pow10 throws on a negative or non-finite argument
pow10Throws(n) == ~IsFinite(n) \/ ~GeZero(n)

pow10(n) ==
    IF n = Zero THEN "1" ELSE NumToString(OneOver(MathPow10(n)))

toDecimalString(input) ==
    IF input.t = "undefined" \/ input.t = "null" THEN Undefined
    ELSE IF input.t = "number"
         THEN (IF ~IsFinite(input.n) THEN Undefined
               ELSE StrV(NumToString(input.n)))
    ELSE IF input.t = "string"
         THEN (IF Len(Trim(input.s)) > 0 THEN StrV(Trim(input.s)) ELSE Undefined)
    ELSE Undefined

\* toPositiveDecimalString with the sign test written value < 0.
toPositiveDecimalString_AcceptsZero(input) ==
    LET token == toDecimalString(input)
        value == ParseNumber(token.s)
    IN  IF Falsy(token) THEN Undefined
        ELSE IF ~IsFinite(value) \/ ~GeZero(value) THEN Undefined
        ELSE StrV(NumToString(value))

toPositiveDecimalString(input) ==
    LET token == toDecimalString(input)
        value == ParseNumber(token.s)
    IN  IF Falsy(token) THEN Undefined
        ELSE IF ~IsFinite(value) \/ ~GtZero(value) THEN Undefined
        ELSE StrV(NumToString(value))

\* Number(x) is finite and >= 0: the test made of both precision fields.
PrecisionOk(x) == IsFinite(ToNumber(x)) /\ GeZero(ToNumber(x))

Threw(msg) ==
    [threw |-> TRUE, error |-> msg, stepSize |-> "", minQty |-> "",
     tickSize |-> "", pricePrecision |-> Undefined,
     quantityPrecision |-> Undefined]

Returned(stepSize, minQty, tickSize, pricePrecision, quantityPrecision) ==
    [threw |-> FALSE, error |-> "", stepSize |-> stepSize, minQty |-> minQty,
     tickSize |-> tickSize, pricePrecision |-> pricePrecision,
     quantityPrecision |-> quantityPrecision]

\* What pow10 reports when it throws.
Pow10Error == "pow10 expects a non-negative finite number"

\* Lines 53-72 once raw.stepSize and raw.quantityPrecision are read:
\* explicit is toPositiveDecimalString(raw.stepSize), qpOk the test of lines
\* 57-59, qp the truncated precision.
StepTierFrom(r, explicit, qpOk, qp) ==
    LET derived ==
            IF Falsy(explicit) /\ qpOk THEN StrV(pow10(qp)) ELSE explicit
    IN  [stepSize |->
             IF Falsy(explicit) /\ Falsy(derived) /\ r.size.t # "undefined"
             THEN toPositiveDecimalString(r.size)
             ELSE derived,
         quantityPrecision |-> IF qpOk THEN NumV(qp) ELSE Undefined,
         threw |-> Falsy(explicit) /\ qpOk /\ pow10Throws(qp)]

\* Lines 53-72: the step size and the quantity precision.
StepTier(r) ==
    StepTierFrom(r, toPositiveDecimalString(r.stepSize),
                 r.quantityPrecision.t # "undefined"
                     /\ PrecisionOk(r.quantityPrecision),
                 MathTrunc(ToNumber(r.quantityPrecision)))

\* Line 86
MinQtyFrom(explicit, stepSize) ==
    IF explicit.t = "undefined" \/ explicit.t = "null" THEN stepSize
    ELSE explicit.s

MinQty(r, stepSize) ==
    MinQtyFrom(toPositiveDecimalString(r.tradeMinQuantity), stepSize)

\* Lines 88-105 once raw.tickSize and raw.pricePrecision are read.
TickTierFrom(explicit, ppOk, pp) ==
    LET derived ==
            IF Falsy(explicit) /\ ppOk THEN StrV(pow10(pp)) ELSE explicit
    IN  [tickSize |-> IF Falsy(derived) THEN "0.01" ELSE derived.s,
         pricePrecision |-> IF ppOk THEN NumV(pp) ELSE Undefined,
         threw |-> Falsy(explicit) /\ ppOk /\ pow10Throws(pp)]

\* Lines 88-105: the tick size and the price precision.
TickTier(r) ==
    TickTierFrom(toPositiveDecimalString(r.tickSize),
                 r.pricePrecision.t # "undefined"
                     /\ PrecisionOk(r.pricePrecision),
                 MathTrunc(ToNumber(r.pricePrecision)))

\* Lines 74-113 once both tiers are computed.
FiltersFrom(r, step, tick) ==
    IF step.threw THEN Threw(Pow10Error)
    ELSE IF Falsy(step.stepSize)
    THEN Threw("missing stepSize/quantityPrecision/size in "
               \o (IF r.symbol.t = "string" THEN r.symbol.s ELSE "<unknown>"))
    ELSE IF tick.threw THEN Threw(Pow10Error)
    ELSE Returned(step.stepSize.s, MinQty(r, step.stepSize.s),
                  tick.tickSize, tick.pricePrecision,
                  IF step.quantityPrecision.t = "undefined"
                     /\ r.quantityPrecision.t # "undefined"
                     /\ PrecisionOk(r.quantityPrecision)
                  THEN NumV(MathTrunc(ToNumber(r.quantityPrecision)))
                  ELSE step.quantityPrecision)

normalizeContractFilters(r) == FiltersFrom(r, StepTier(r), TickTier(r))

\* A returned filter set read as a raw record (its own output shape).
AsRaw(f) ==
    [symbol |-> Undefined, stepSize |-> StrV(f.stepSize),
     quantityPrecision |-> f.quantityPrecision, size |-> Undefined,
     tradeMinQuantity |-> Undefined, tickSize |-> StrV(f.tickSize),
     pricePrecision |-> f.pricePrecision, minQty |-> StrV(f.minQty)]

(***************************************************************************)
(* normalizeContractFilters applied to a raw record, then to its own       *)
(* output.                                                                 *)
(***************************************************************************)
NoResult == Threw("")

\* Precision fields as the exchange may send them: small integers, a value
\* past the double range of 10^n, fractions, numeric strings and junk.
SmallPrecisions == {NumV(Num(p, 0)) : p \in 0..MaxPrecision}

QuantityPrecisionValues ==
    SmallPrecisions \cup
    {Undefined, NullV, StrV(""), StrV("abc"), NumV(Neg(1, 0)),
     NumV(Infinity(FALSE)), StrV("2.5"), NumV(Num(DoubleMaxExp10 + 1, 0))}

PricePrecisionValues ==
    {Undefined, NullV, NumV(Neg(1, 0)), NumV(NaN), StrV("1.9"),
     NumV(Num(MaxPrecision, 0)), NumV(Num(DoubleMaxExp10 + 1, 0))}

StepSizeValues ==
    {Undefined, StrV("0.0010"), NumV(Zero), StrV("abc"), NumV(Infinity(FALSE))}

SizeValues == {Undefined, NullV, StrV(" "), NumV(Neg(1, 0)), StrV("0.5")}

TradeMinQuantityValues == {Undefined, NumV(Zero), StrV("5"), NumV(Num(1, -3))}

TickSizeValues == {Undefined, StrV("0.5"), NumV(Zero)}

SymbolValues == {StrV("BTC-USDT"), Undefined}

RawInputs ==
    [symbol : SymbolValues, stepSize : StepSizeValues,
     quantityPrecision : QuantityPrecisionValues, size : SizeValues,
     tradeMinQuantity : TradeMinQuantityValues, tickSize : TickSizeValues,
     pricePrecision : PricePrecisionValues, minQty : {Undefined}]

FiltersIdle ==
    /\ raw = [symbol |-> Undefined, stepSize |-> Undefined,
              quantityPrecision |-> Undefined, size |-> Undefined,
              tradeMinQuantity |-> Undefined, tickSize |-> Undefined,
              pricePrecision |-> Undefined, minQty |-> Undefined]
    /\ result = NoResult
    /\ again = NoResult
    /\ fpc = "idle"

SignQueryIdle ==
    /\ sqA = <<>> /\ sqB = <<>> /\ sqOutA = "" /\ sqOutB = "" /\ sqpc = "idle"

EnvIdle == apiKey = "" /\ apiSecret = "" /\ hasFetch = FALSE

NoOutcome ==
    [settled |-> "pending", status |-> 0, text |-> "", error |-> ""]

GetSignedIdle ==
    /\ params = <<>> /\ path = "" /\ now = Zero /\ sentQuery = ""
    /\ requests = <<>> /\ log = <<>> /\ signature = "" /\ outcome = NoOutcome
    /\ gpc = "idle"

Endpoints == {"balance", "positions", "open orders"}

NoCall == [st |-> "none", status |-> 0, text |-> "", error |-> ""]

NotAsserted == [called |-> FALSE, threw |-> FALSE, error |-> ""]

NoReport ==
    [settled |-> "pending", error |-> "", balance |-> JUndefined,
     positions |-> JUndefined, openOrders |-> JUndefined]

ReportIdle ==
    /\ rOptions = [symbol |-> Undefined, includeOpenOrders |-> FALSE]
    /\ rCalls = [e \in Endpoints |-> NoCall]
    /\ rAsserted = [e \in Endpoints |-> NotAsserted]
    /\ rOutcome = NoReport
    /\ rpc = "idle"

NoArgs ==
    [method |-> Undefined, url |-> Undefined, payload |-> JUndefined,
     requestPath |-> Undefined]

FormatIdle == feArgs = NoArgs /\ feOut = "" /\ fepc = "idle"

NoDate == [Y |-> 0, M |-> 0, D |-> 0, h |-> 0, m |-> 0, s |-> 0]

NoOpts ==
    [symbol |-> "", intent |-> "", orderType |-> Undefined,
     positionSide |-> Undefined, autoTrade |-> Undefined,
     leverage |-> Undefined, marginUSDT |-> Undefined,
     quantity |-> Undefined, reduceOnly |-> Undefined, timestamp |-> <<>>]

MessageIdle ==
    smOpts = NoOpts /\ smNow = NoDate /\ smOut = "" /\ smpc = "idle"

\* The parts modelled after the exchange client are idle.
NoPosition ==
    [positionSide |-> "", entryPrice |-> 0, quantity |-> 0, tpStages |-> <<>>,
     slPercent |-> <<>>, epoch |-> 0]

MonitorIdle ==
    position = NoPosition /\ pstate = "none" /\ markPrice = 0 /\ orders = <<>>

DedupIdle == dgSeen = {} /\ dgNow = 0 /\ dgLog = <<>> /\ dgOrders = <<>>

NoSizing ==
    [marginUsdt |-> "", leverage |-> "", markPrice |-> "", stepSize |-> "",
     minQty |-> ""]

SizerIdle == szIn = NoSizing /\ szOut = "" /\ szpc = "idle"

QueueIdle == qQueue = <<>> /\ qInFlight = {} /\ qIssued = 0

EngineIdle == DedupIdle /\ SizerIdle /\ QueueIdle

CodeIdle ==
    /\ FiltersIdle /\ SignQueryIdle /\ EnvIdle /\ GetSignedIdle /\ ReportIdle
    /\ FormatIdle /\ MessageIdle

BesideClientIdle == FormatIdle /\ MessageIdle /\ MonitorIdle /\ EngineIdle

InitFilters ==
    /\ raw \in RawInputs
    /\ result = NoResult
    /\ again = NoResult
    /\ fpc = "start"
    /\ SignQueryIdle
    /\ EnvIdle
    /\ GetSignedIdle
    /\ ReportIdle
    /\ BesideClientIdle

\* normalizeContractFilters(raw)
Normalize ==
    /\ fpc = "start"
    /\ result' = normalizeContractFilters(raw)
    /\ fpc' = "normalized"
    /\ UNCHANGED <<raw, again, besideFilters>>

\* normalizeContractFilters(result), for a result that was returned
Renormalize ==
    /\ fpc = "normalized"
    /\ ~result.threw
    /\ again' = normalizeContractFilters(AsRaw(result))
    /\ fpc' = "renormalized"
    /\ UNCHANGED <<raw, result, besideFilters>>

NextFilters == Normalize \/ Renormalize

SpecFilters == InitFilters /\ [][NextFilters]_vars

(***************************************************************************)
(* Properties of normalizeContractFilters (checked under SpecFilters).     *)
(***************************************************************************)
\* The number a decimal string denotes.
Denotes(str) == ParseNumber(str)

\* A field that carries a positive number: a number or a numeric string,
\* finite and greater than zero.
IsPositiveNumber(v) ==
    /\ v.t \in {"number", "string"}
    /\ (v.t = "string" => Trim(v.s) # "")
    /\ IsFinite(ToNumber(v))
    /\ GtZero(ToNumber(v))

\* A stepSize/size field without a usable value: absent, null, empty,
\* non-numeric, non-finite or not positive.
UnusableSize(v) == ~IsPositiveNumber(v)

\* A quantityPrecision field without a usable value: absent, null, empty,
\* non-numeric, non-finite or negative.
UnusablePrecision(v) ==
    \/ v.t \in {"undefined", "null"}
    \/ (v.t = "string" /\ Trim(v.s) = "")
    \/ ~IsFinite(ToNumber(v))
    \/ ~GeZero(ToNumber(v))

\* A precision field that is present and whose Number() is finite and >= 0.
HasPrecision(v) == v.t # "undefined" /\ IsFinite(ToNumber(v)) /\ GeZero(ToNumber(v))

\* The integer a precision field stands for, truncated toward zero.
PrecisionOf(v) ==
    LET n == MathTrunc(ToNumber(v)) IN n.m * Pow10Int(n.e)

\* 10^-p, exactly.
ExactPow10Neg(p) ==
    IF p = 0 THEN [k |-> "fin", neg |-> FALSE, m |-> 1, e |-> 0]
    ELSE [k |-> "fin", neg |-> FALSE, m |-> 1, e |-> -p]

\* The plain decimal of 10^-p: "1", or "0." then p-1 zeros then "1".
PlainPow10Neg(p) == IF p = 0 THEN "1" ELSE "0." \o Repeat("0", p - 1) \o "1"

\* C1: normalizeContractFilters is idempotent on its own output: whenever it
\* returned a filter set, normalizing that set again returns the same
\* stepSize, minQty, tickSize, pricePrecision and quantityPrecision.
C1_IdempotentOnOutput ==
    fpc = "renormalized" =>
        /\ ~again.threw
        /\ again.stepSize = result.stepSize
        /\ again.minQty = result.minQty
        /\ again.tickSize = result.tickSize
        /\ again.pricePrecision = result.pricePrecision
        /\ again.quantityPrecision = result.quantityPrecision

\* C2: every returned filter set has stepSize, minQty and tickSize that each
\* denote a strictly positive number, whatever the raw input.
C2_SizesStrictlyPositive ==
    (fpc = "normalized" /\ ~result.threw) =>
        /\ GtZero(Denotes(result.stepSize))
        /\ GtZero(Denotes(result.minQty))
        /\ GtZero(Denotes(result.tickSize))

\* C3: when none of stepSize, quantityPrecision and size carries a usable
\* value, normalizeContractFilters throws and the error names raw.symbol.
C3_FailsWithoutSizeInformation ==
    (/\ fpc = "normalized"
     /\ UnusableSize(raw.stepSize)
     /\ UnusablePrecision(raw.quantityPrecision)
     /\ UnusableSize(raw.size)) =>
        /\ result.threw
        /\ (raw.symbol.t = "string" => EndsWith(result.error, " in " \o raw.symbol.s))

\* C4: stepSize follows the precedence explicit stepSize > 10^-quantityPrecision
\* > size; a tier without a valid value falls through to the next one, and
\* only when all three are invalid is nothing returned.
C4_StepSizePrecedence ==
    fpc = "normalized" =>
        IF IsPositiveNumber(raw.stepSize)
        THEN ~result.threw /\ Denotes(result.stepSize) = ToNumber(raw.stepSize)
        ELSE IF HasPrecision(raw.quantityPrecision)
        THEN /\ ~result.threw
             /\ Denotes(result.stepSize) =
                    ExactPow10Neg(PrecisionOf(raw.quantityPrecision))
        ELSE IF IsPositiveNumber(raw.size)
        THEN ~result.threw /\ Denotes(result.stepSize) = ToNumber(raw.size)
        ELSE result.threw

\* C5: a stepSize or tickSize derived from a precision p >= 0 is the exact
\* plain decimal of 10^-p ("1", or "0." then p-1 zeros then "1"): never an
\* exponent form, a rounded value or zero.
C5_DerivedSizeIsPlainDecimal ==
    (fpc = "normalized" /\ ~result.threw) =>
        /\ (~IsPositiveNumber(raw.stepSize) /\ HasPrecision(raw.quantityPrecision))
              => result.stepSize = PlainPow10Neg(PrecisionOf(raw.quantityPrecision))
        /\ (~IsPositiveNumber(raw.tickSize) /\ HasPrecision(raw.pricePrecision))
              => result.tickSize = PlainPow10Neg(PrecisionOf(raw.pricePrecision))

\* C6: in every returned filter set minQty is the explicit tradeMinQuantity
\* when that is a positive number, and otherwise is exactly the returned
\* stepSize.
C6_MinQtyExplicitElseStepSize ==
    (fpc = "normalized" /\ ~result.threw) =>
        IF IsPositiveNumber(raw.tradeMinQuantity)
        THEN /\ Denotes(result.minQty) = ToNumber(raw.tradeMinQuantity)
             /\ result.minQty = NumToString(ToNumber(raw.tradeMinQuantity))
        ELSE result.minQty = result.stepSize

\* A returned set whose minQty is the explicit tradeMinQuantity "5" and differs
\* from its stepSize.
C6_Witness ==
    /\ fpc = "normalized" /\ ~result.threw
    /\ raw.tradeMinQuantity = StrV("5")
    /\ result.minQty = "5"
    /\ result.stepSize = "0.001"

\* C7: tickSize follows the precedence explicit tickSize > 10^-pricePrecision
\* > default "0.01", and deriving it never makes normalization fail.
C7_TickSizePrecedence ==
    fpc = "normalized" =>
        /\ result.threw => StartsWith(result.error, "missing stepSize")
        /\ ~result.threw =>
              IF IsPositiveNumber(raw.tickSize)
              THEN Denotes(result.tickSize) = ToNumber(raw.tickSize)
              ELSE IF HasPrecision(raw.pricePrecision)
              THEN Denotes(result.tickSize) =
                       ExactPow10Neg(PrecisionOf(raw.pricePrecision))
              ELSE result.tickSize = "0.01"

(***************************************************************************)
(* accountClient.ts.  A JavaScript object is the sequence of its           *)
(* [k, v] properties in insertion order, no key twice.                     *)
(***************************************************************************)
\* constants.ts: BINGX_BASE, and accountClient.ts: RECV_WINDOW (the defaults)
BINGX_BASE == "https://open-api.bingx.com"

RECV_WINDOW == "5000"

Pair(k, v) == [k |-> k, v |-> v]

KeysOf(o) == [i \in 1..Len(o) |-> o[i].k]

HasKey(o, key) == \E i \in 1..Len(o) : o[i].k = key

Get(o, key) == o[CHOOSE i \in 1..Len(o) : o[i].k = key].v

\* o[key] = v: an existing property keeps its place, a new one goes last.
ObjSet(o, key, v) ==
    IF HasKey(o, key)
    THEN [i \in 1..Len(o) |-> IF o[i].k = key THEN Pair(key, v) ELSE o[i]]
    ELSE Append(o, Pair(key, v))

\* Comparison of strings by UTF-16 code units, as Array.prototype.sort()
\* makes it when given no comparator.
RECURSIVE StrLess(_, _)
StrLess(a, b) ==
    IF a = "" THEN b # ""
    ELSE IF b = "" THEN FALSE
    ELSE IF Head(a) = Head(b) THEN StrLess(Tail(a), Tail(b))
    ELSE Ord(Head(a)) < Ord(Head(b))

RECURSIVE InsertSorted(_, _)
InsertSorted(sorted, x) ==
    IF sorted = <<>> THEN <<x>>
    ELSE IF StrLess(x, Head(sorted)) THEN <<x>> \o sorted
    ELSE <<Head(sorted)>> \o InsertSorted(Tail(sorted), x)

\* Array.prototype.sort() of an array of strings
RECURSIVE SortStrings(_)
SortStrings(seq) ==
    IF seq = <<>> THEN <<>>
    ELSE InsertSorted(SortStrings(SubSeq(seq, 1, Len(seq) - 1)), seq[Len(seq)])

\* An integer-like key: such keys are enumerated first, in ascending order.
IsArrayIndex(k) == k # "" /\ AllDigits(k) /\ (k = "0" \/ Head(k) # "0")

RECURSIVE InsertIndex(_, _)
InsertIndex(sorted, x) ==
    IF sorted = <<>> THEN <<x>>
    ELSE IF StrToNat(x) < StrToNat(Head(sorted)) THEN <<x>> \o sorted
    ELSE <<Head(sorted)>> \o InsertIndex(Tail(sorted), x)

RECURSIVE SortIndices(_)
SortIndices(seq) ==
    IF seq = <<>> THEN <<>>
    ELSE InsertIndex(SortIndices(SubSeq(seq, 1, Len(seq) - 1)), seq[Len(seq)])

NotArrayIndex(k) == ~IsArrayIndex(k)

\* Object.keys(o)
ObjectKeys(o) ==
    SortIndices(SelectSeq(KeysOf(o), IsArrayIndex))
        \o SelectSeq(KeysOf(o), NotArrayIndex)

\* String(value)
ToStr(v) ==
    IF v.t = "number" THEN NumToString(v.n)
    ELSE IF v.t = "undefined" THEN "undefined"
    ELSE IF v.t = "null" THEN "null"
    ELSE v.s

RECURSIVE Join(_, _)
Join(strs, sep) ==
    IF strs = <<>> THEN ""
    ELSE IF Len(strs) = 1 THEN strs[1]
    ELSE strs[1] \o sep \o Join(Tail(strs), sep)

\* normaliseParams without the filter on undefined values.
normaliseParams_KeepsUndefined(ps) ==
    LET kept == ObjectKeys(ps)
    IN  [i \in 1..Len(kept) |-> Pair(kept[i], ToStr(Get(ps, kept[i])))]

\* Lines 8-16
normaliseParams(ps) ==
    LET IsDefined(key) == Get(ps, key).t # "undefined"
        kept == SelectSeq(ObjectKeys(ps), IsDefined)
    IN  [i \in 1..Len(kept) |-> Pair(kept[i], ToStr(Get(ps, kept[i])))]

\* Stand-in for createHmac("sha256", secret).update(msg).digest("hex"): a
\* keyed digest of every character of msg and its position, written in hex
\* characters.
RECURSIVE Mix(_, _, _)
Mix(s, lo, hi) ==
    IF lo > hi THEN 0
    ELSE IF lo = hi THEN ((lo * lo + 3 * lo + 1) * Ord(CharAt(s, lo))) % 1296
    ELSE LET mid == (lo + hi) \div 2
         IN  (Mix(s, lo, mid) + Mix(s, mid + 1, hi)) % 1296

HexLetter(d) == CharAt("abcdef", d + 1)

HmacSha256Hex(secret, msg) ==
    LET h == (7 * Mix(secret, 1, Len(secret)) + Mix(msg, 1, Len(msg))) % 1296
    IN  HexLetter(h \div 216) \o HexLetter((h \div 36) % 6)
            \o HexLetter((h \div 6) % 6) \o HexLetter(h % 6)

\* Line 19-20: the sorted keys joined as k=v pairs.
QueryOf(ps, keys) ==
    Join([i \in 1..Len(keys) |-> keys[i] \o "=" \o Get(ps, keys[i])], "&")

\* signQuery with the keys left in Object.keys order.
signQuery_Unsorted(ps, secret) ==
    LET query == QueryOf(ps, ObjectKeys(ps))
    IN  query \o "&signature=" \o HmacSha256Hex(secret, query)

\* Lines 18-23
signQuery(ps, secret) ==
    LET sortedKeys == SortStrings(ObjectKeys(ps))
        query == QueryOf(ps, sortedKeys)
    IN  query \o "&signature=" \o HmacSha256Hex(secret, query)

LowerChar(c) ==
    LET i == FirstOf("ABCDEFGHIJKLMNOPQRSTUVWXYZ", c, 1)
    IN  IF i = 0 THEN c ELSE CharAt("abcdefghijklmnopqrstuvwxyz", i)

RECURSIVE Lower(_)
Lower(s) == IF s = "" THEN "" ELSE LowerChar(Head(s)) \o Lower(Tail(s))

IsHexChar(c) == FirstOf("0123456789abcdefABCDEF", c, 1) # 0

\* The regular expression /signature=[0-9a-f]+/i matches at position i.
SignatureAt(text, i) ==
    /\ i + 10 <= Len(text)
    /\ LowerChar(CharAt(text, i)) = "s"
    /\ Lower(SubSeq(text, i, i + 9)) = "signature="
    /\ IsHexChar(CharAt(text, i + 10))

\* The first position from i on that holds no hex character.
HexRunEnd(text, i) ==
    LET stops == {j \in i..Len(text) : ~IsHexChar(CharAt(text, j))}
    IN  IF stops = {} THEN Len(text) + 1
        ELSE CHOOSE j \in stops : \A n \in stops : j <= n

\* What a replacement that rewrites the matches starting at the positions in
\* starts leaves of text[lo..hi]: "<redacted>" for the first character of a
\* matched hex run, nothing for the others, every other character as it is.
\* (Matches cannot overlap: "signature=" holds no hex run and no copy of its
\* own prefix.)
RECURSIVE Rewritten(_, _, _, _)
Rewritten(text, starts, lo, hi) ==
    IF lo > hi THEN ""
    ELSE IF lo = hi
    THEN (IF \E j \in starts : lo = j + 10 THEN "<redacted>"
          ELSE IF \E j \in starts : j + 10 < lo /\ lo < HexRunEnd(text, j + 10)
               THEN ""
          ELSE IF \E j \in starts : j <= lo /\ lo < j + 10
               THEN CharAt("signature=", lo - (CHOOSE j \in starts :
                                                  j <= lo /\ lo < j + 10) + 1)
          ELSE CharAt(text, lo))
    ELSE LET mid == (lo + hi) \div 2
         IN  Rewritten(text, starts, lo, mid)
                 \o Rewritten(text, starts, mid + 1, hi)

Matches(text) == {i \in 1..Len(text) : SignatureAt(text, i)}

\* The regular expression without its g flag: the first match alone.
redactSignature_FirstOnly(text) ==
    LET all == Matches(text)
        first == {i \in all : \A j \in all : i <= j}
    IN  Rewritten(text, first, 1, Len(text))

\* Lines 33-35: text.replace(/signature=[0-9a-f]+/gi, "signature=<redacted>")
redactSignature(text) ==
    CHOOSE out \in {Rewritten(text, starts, 1, Len(text)) :
                        starts \in {Matches(text)}} : TRUE

\* The spread written last: { recvWindow, timestamp, ...params }
BaseParams_CallerLast(ps, t) ==
    normaliseParams(
        IF HasKey(ps, "timestamp") /\ HasKey(ps, "recvWindow") THEN ps
        ELSE IF HasKey(ps, "timestamp")
        THEN ObjSet(ps, "recvWindow", StrV(RECV_WINDOW))
        ELSE IF HasKey(ps, "recvWindow") THEN ObjSet(ps, "timestamp", NumV(t))
        ELSE ObjSet(ObjSet(ps, "recvWindow", StrV(RECV_WINDOW)),
                    "timestamp", NumV(t)))

\* Lines 54-58: { ...params, recvWindow: RECV_WINDOW, timestamp: Date.now() }
\* normalised; the spread copies the properties in Object.keys order.
BaseParams(ps, t) ==
    LET keys == ObjectKeys(ps)
        copy == [i \in 1..Len(keys) |-> Pair(keys[i], Get(ps, keys[i]))]
    IN  normaliseParams(
            ObjSet(ObjSet(copy, "recvWindow", StrV(RECV_WINDOW)),
                   "timestamp", NumV(t)))

Rejected(msg) ==
    [settled |-> "rejected", status |-> 0, text |-> "", error |-> msg]

\* The SignedResponse; its json field is safeJson(text).
Resolved(status, text) ==
    [settled |-> "resolved", status |-> status, text |-> text, error |-> ""]

(***************************************************************************)
(* signQuery applied to two objects that hold the same properties.         *)
(***************************************************************************)
DistinctKeys(o) == \A i, j \in 1..Len(o) : o[i].k = o[j].k => i = j

\* The objects of at most n properties taken from the set pairs.
Objects(pairs, n) ==
    UNION {{o \in [1..m -> pairs] : DistinctKeys(o)} : m \in 0..n}

\* The same properties in every insertion order.
Reorderings(o) ==
    {[i \in 1..Len(o) |-> o[f[i]]] :
        f \in {g \in [1..Len(o) -> 1..Len(o)] :
                  \A i, j \in 1..Len(o) : g[i] = g[j] => i = j}}

SignPairs ==
    {Pair("symbol", "BTC-USDT"), Pair("symbol", "A&b=1"),
     Pair("timestamp", "1700000000000"), Pair("recvWindow", "5000"),
     Pair("Zeta", "1"), Pair("10", "x"), Pair("9", "y")}

Secrets == {"", "s3cr3t"}

InitSignQuery ==
    /\ sqA \in Objects(SignPairs, MaxKeys)
    /\ sqB \in Reorderings(sqA)
    /\ sqOutA = "" /\ sqOutB = "" /\ sqpc = "start"
    /\ apiKey = "" /\ apiSecret = "s3cr3t" /\ hasFetch = FALSE
    /\ FiltersIdle
    /\ GetSignedIdle
    /\ ReportIdle
    /\ BesideClientIdle

\* signQuery(sqA) and signQuery(sqB)
SignBoth ==
    /\ sqpc = "start"
    /\ sqOutA' = signQuery(sqA, apiSecret)
    /\ sqOutB' = signQuery(sqB, apiSecret)
    /\ sqpc' = "signed"
    /\ UNCHANGED <<sqA, sqB, besideSignQuery>>

NextSignQuery == SignBoth

SpecSignQuery == InitSignQuery /\ [][NextSignQuery]_vars

(***************************************************************************)
(* getSigned: one call, from its entry to the settling of its promise.     *)
(***************************************************************************)
CallerPairs ==
    {Pair("symbol", StrV("BTC-USDT")), Pair("symbol", StrV("BTC&timestamp=1")),
     Pair("symbol", Undefined), Pair("timestamp", NumV(Num(1, 0))),
     Pair("recvWindow", StrV("9")), Pair("signature", StrV("12")),
     Pair("limit", NumV(Num(5, 1))), Pair("Zeta", Undefined)}

\* constants.ts: PATH_USER_BALANCE, PATH_USER_POSITIONS
Paths == {"/openApi/swap/v2/user/balance", "/openApi/swap/v2/user/positions"}

\* Values of Date.now()
Clock == {Num(17, 11), Num(1700000123, 3)}

\* What the exchange may answer: an HTTP status and a body of its own making.
Statuses == {200, 500}

Bodies ==
    {"{\"code\":0,\"data\":[]}", "<html>Bad Gateway</html>"}

InitSigned ==
    /\ apiKey \in {"", "key"}
    /\ apiSecret \in Secrets
    /\ hasFetch \in BOOLEAN
    /\ params \in Objects(CallerPairs, MaxParams)
    /\ path \in Paths
    /\ now \in Clock
    /\ sentQuery = "" /\ requests = <<>> /\ log = <<>> /\ signature = ""
    /\ outcome = NoOutcome
    /\ gpc = "start"
    /\ FiltersIdle
    /\ SignQueryIdle
    /\ ReportIdle
    /\ BesideClientIdle

\* Lines 47-49
RejectNoCredentials ==
    /\ gpc = "start"
    /\ ~(apiKey # "" /\ apiSecret # "")
    /\ outcome' = Rejected("BingX API credentials are not configured")
    /\ gpc' = "rejected"
    /\ UNCHANGED <<params, path, now, sentQuery, requests, log, signature,
                   besideSigned>>

\* Lines 50-52
RejectNoFetch ==
    /\ gpc = "start"
    /\ apiKey # "" /\ apiSecret # ""
    /\ ~hasFetch
    /\ outcome' = Rejected("Global fetch API is not available in this runtime")
    /\ gpc' = "rejected"
    /\ UNCHANGED <<params, path, now, sentQuery, requests, log, signature,
                   besideSigned>>

\* Lines 54-70: sign, log the redacted URL (the line starts with an arrow,
\* written -> here), hand the URL to fetch.
SendRequest ==
    /\ gpc = "start"
    /\ apiKey # "" /\ apiSecret # ""
    /\ hasFetch
    /\ \E queryString \in {signQuery(BaseParams(params, now), apiSecret)} :
          LET url == BINGX_BASE \o path \o "?" \o queryString
              redactedUrl == redactSignature(url)
          IN  /\ sentQuery' = queryString
              /\ signature' = AfterLast(queryString, "=")
              /\ log' = Append(log, "-> GET " \o redactedUrl)
              /\ requests' = Append(requests, url)
    /\ gpc' = "fetching"
    /\ UNCHANGED <<params, path, now, outcome, besideSigned>>

\* Lines 65-79: the response arrives and its body is read and logged.
FetchResolves ==
    /\ gpc = "fetching"
    /\ \E status \in Statuses, text \in Bodies :
          /\ log' = Append(log, "HTTP " \o NatToStr(status) \o " " \o text)
          /\ outcome' = Resolved(status, text)
    /\ gpc' = "resolved"
    /\ UNCHANGED <<params, path, now, sentQuery, requests, signature,
                   besideSigned>>

\* Lines 65-72: fetch, or reading the body, fails; nothing catches it.
FetchRejects ==
    /\ gpc = "fetching"
    /\ outcome' = Rejected("fetch failed")
    /\ gpc' = "rejected"
    /\ UNCHANGED <<params, path, now, sentQuery, requests, log, signature,
                   besideSigned>>

NextSigned ==
    \/ RejectNoCredentials
    \/ RejectNoFetch
    \/ SendRequest
    \/ FetchResolves
    \/ FetchRejects

SpecSigned == InitSigned /\ [][NextSigned]_vars

(***************************************************************************)
(* Properties of signQuery (checked under SpecSignQuery).                  *)
(***************************************************************************)
\* C8: signQuery returns the same string, query part and signature alike, for
\* two parameter objects that hold the same key/value pairs, whatever the
\* order in which the keys were inserted.
C8_SignQueryIgnoresInsertionOrder ==
    sqpc = "signed" => sqOutA = sqOutB

\* Three properties, enumerated in different orders by Object.keys and
\* neither of them in sorted order, signed to the same string.
C8_Witness ==
    /\ sqpc = "signed"
    /\ Len(sqA) = 3
    /\ ObjectKeys(sqA) # ObjectKeys(sqB)
    /\ ObjectKeys(sqA) # SortStrings(ObjectKeys(sqA))
    /\ ObjectKeys(sqB) # SortStrings(ObjectKeys(sqB))
    /\ sqOutA = sqOutB
    /\ Contains(sqOutA, "&signature=")

(***************************************************************************)
(* Properties of getSigned (checked under SpecSigned).                     *)
(***************************************************************************)
\* The pieces of s between the occurrences of the character c.
RECURSIVE Split(_, _)
Split(s, c) ==
    LET i == FirstOf(s, c, 1)
    IN  IF i = 0 THEN <<s>>
        ELSE <<SubSeq(s, 1, i - 1)>> \o Split(SubSeq(s, i + 1, Len(s)), c)

\* The key of a k=v pair: what precedes its first "=".
PairKey(p) ==
    LET i == FirstOf(p, "=", 1) IN IF i = 0 THEN p ELSE SubSeq(p, 1, i - 1)

\* The sent query string, read back as "&"-separated pairs: exactly one
\* timestamp and one recvWindow pair, the pairs before the last in strictly
\* ascending key order, no pair for a parameter given as undefined, and a last
\* pair signature=<HMAC of all that precedes its "&">; that string is the
\* query of the one URL requested.
SentQueryIsCanonical ==
    LET ps == Split(sentQuery, "&")
        n == Len(ps)
        keys == [i \in 1..n |-> PairKey(ps[i])]
        preceding == Join(SubSeq(ps, 1, n - 1), "&")
    IN  /\ Cardinality({i \in 1..n : keys[i] = "timestamp"}) = 1
        /\ Cardinality({i \in 1..n : keys[i] = "recvWindow"}) = 1
        /\ \A i, j \in 1..(n - 1) : i < j => StrLess(keys[i], keys[j])
        /\ \A i \in 1..Len(params) :
              (params[i].v = Undefined
                  /\ params[i].k \notin {"timestamp", "recvWindow"})
              => \A j \in 1..n : keys[j] # params[i].k
        /\ ps[n] = "signature=" \o HmacSha256Hex(apiSecret, preceding)
        /\ requests = <<BINGX_BASE \o path \o "?" \o sentQuery>>

\* No key and no value of the caller's params holds an "&" or an "=".
SeparatorFree(ps) ==
    \A i \in 1..Len(ps) :
        /\ FirstOf(ps[i].k, "&=", 1) = 0
        /\ FirstOf(ToStr(ps[i].v), "&=", 1) = 0

\* C9 as stated: the query string of every request getSigned sends is
\* canonical in the sense of SentQueryIsCanonical.
C9_SentQueryAlwaysCanonical ==
    requests # <<>> => SentQueryIsCanonical

\* C9 as amended: the same, for params whose keys and values hold no "&" and
\* no "=".
C9_SentQueryCanonicalForPlainParams ==
    (requests # <<>> /\ SeparatorFree(params)) => SentQueryIsCanonical

\* A request for params that bring their own timestamp and an undefined
\* symbol: the query holds the injected pairs and the signature only.
C9_Witness ==
    /\ gpc = "fetching"
    /\ params = <<Pair("timestamp", NumV(Num(1, 0))), Pair("symbol", Undefined)>>
    /\ now = Num(17, 11)
    /\ StartsWith(sentQuery, "recvWindow=5000&timestamp=1700000000000&signature=")

JGet(v, key) ==
    LET at == {i \in 1..Len(v.o) : v.o[i].k = key}
    IN  IF v.t # "object" \/ at = {} THEN JUndefined
        ELSE v.o[CHOOSE i \in at : \A j \in at : j <= i].v

\* a ?? b
Coalesce(a, b) == IF a.t = "undefined" \/ a.t = "null" THEN b ELSE a

\* Array.prototype.join(","): null and undefined elements give "".
RECURSIVE JToString(_)
JToString(v) ==
    CASE v.t = "undefined" -> "undefined"
      [] v.t = "null" -> "null"
      [] v.t = "boolean" -> v.s
      [] v.t = "number" -> NumToString(v.n)
      [] v.t = "string" -> v.s
      [] v.t = "object" -> "[object Object]"
      [] v.t = "array" ->
            IF v.o = <<>> THEN ""
            ELSE LET last == v.o[Len(v.o)]
                     text == IF last.t = "undefined" \/ last.t = "null"
                             THEN "" ELSE JToString(last)
                 IN  IF Len(v.o) = 1 THEN text
                     ELSE JToString(JArr(SubSeq(v.o, 1, Len(v.o) - 1)))
                          \o "," \o text

\* The result of a parsing step: the value read and the index after it.
ParseOk(v, i) == [ok |-> TRUE, v |-> v, i |-> i]

ParseFail == [ok |-> FALSE, v |-> JUndefined, i |-> 0]

\* Index of the first character of s at or after i that is not JSON
\* whitespace (Len(s) + 1 if none).
SkipWs(s, i) ==
    LET ink == {j \in i..Len(s) : FirstOf(" \t\n\r", CharAt(s, j), 1) = 0}
    IN  IF ink = {} THEN Len(s) + 1
        ELSE CHOOSE j \in ink : \A n \in ink : j <= n

\* Index of the last character of the run of number characters from i on.
NumberEnd(s, i) ==
    LET other == {j \in i..Len(s) :
                     FirstOf("+-.0123456789eE", CharAt(s, j), 1) = 0}
    IN  IF other = {} THEN Len(s)
        ELSE (CHOOSE j \in other : \A n \in other : j <= n) - 1

\* The JSON number grammar, on the parts of an unsigned token:
\* int (frac)? (exp)?, int = 0 | [1-9][0-9]*, frac = . [0-9]+,
\* exp = [eE] [+-]? [0-9]+.
JsonNumberParts(ip, hasDot, fp, hasExp, edigits) ==
    /\ ip # "" /\ AllDigits(ip) /\ (Len(ip) > 1 => Head(ip) # "0")
    /\ hasDot => (fp # "" /\ AllDigits(fp))
    /\ ~hasDot => fp = ""
    /\ hasExp => (edigits # "" /\ AllDigits(edigits))

JsonMantissa(mant, dot, etxt, hasExp) ==
    JsonNumberParts(IF dot = 0 THEN mant ELSE SubSeq(mant, 1, dot - 1),
                    dot # 0,
                    IF dot = 0 THEN "" ELSE SubSeq(mant, dot + 1, Len(mant)),
                    hasExp,
                    IF etxt # "" /\ (Head(etxt) = "-" \/ Head(etxt) = "+")
                    THEN Tail(etxt) ELSE etxt)

JsonUnsigned(body, epos) ==
    JsonMantissa(IF epos = 0 THEN body ELSE SubSeq(body, 1, epos - 1),
                 FirstOf(IF epos = 0 THEN body ELSE SubSeq(body, 1, epos - 1),
                         ".", 1),
                 IF epos = 0 THEN "" ELSE SubSeq(body, epos + 1, Len(body)),
                 epos # 0)

IsJsonNumber(tok) ==
    /\ tok # ""
    /\ JsonUnsigned(IF Head(tok) = "-" THEN Tail(tok) ELSE tok,
                    FirstOf(IF Head(tok) = "-" THEN Tail(tok) ELSE tok,
                            "eE", 1))

\* The character an escape \c stands for ("" when \c is no escape); the
\* alphabet of the bodies holds no \b and no \u escape.
Unescape(c) ==
    CASE c = "\"" -> "\""
      [] c = "\\" -> "\\"
      [] c = "/" -> "/"
      [] c = "n" -> "\n"
      [] c = "t" -> "\t"
      [] c = "r" -> "\r"
      [] c = "f" -> "\f"
      [] OTHER -> ""

\* A string whose opening quote precedes index j; acc is what was read.
RECURSIVE JsonString(_, _, _)
JsonString(s, j, acc) ==
    IF j > Len(s) THEN ParseFail
    ELSE IF CharAt(s, j) = "\"" THEN ParseOk(JStr(acc), j + 1)
    ELSE IF CharAt(s, j) = "\\"
         THEN (IF j + 1 > Len(s) \/ Unescape(CharAt(s, j + 1)) = ""
               THEN ParseFail
               ELSE JsonString(s, j + 2, acc \o Unescape(CharAt(s, j + 1))))
    ELSE IF FirstOf("\t\n\r\f", CharAt(s, j), 1) # 0 THEN ParseFail
    ELSE JsonString(s, j + 1, acc \o CharAt(s, j))

JsonNumber(s, i, e) ==
    IF IsJsonNumber(SubSeq(s, i, e))
    THEN ParseOk(JNum(ParseNumber(SubSeq(s, i, e))), e + 1)
    ELSE ParseFail

JsonLiteral(s, i) ==
    IF i + 3 <= Len(s) /\ SubSeq(s, i, i + 3) = "true"
    THEN ParseOk(JBool(TRUE), i + 4)
    ELSE IF i + 4 <= Len(s) /\ SubSeq(s, i, i + 4) = "false"
    THEN ParseOk(JBool(FALSE), i + 5)
    ELSE IF i + 3 <= Len(s) /\ SubSeq(s, i, i + 3) = "null"
    THEN ParseOk(JNull, i + 4)
    ELSE ParseFail

RECURSIVE JsonValue(_, _)
RECURSIVE JsonElements(_, _, _)
RECURSIVE JsonMembers(_, _, _)
RECURSIVE JsonAfterElement(_, _, _, _)
RECURSIVE JsonAfterKey(_, _, _, _)
RECURSIVE JsonAfterMember(_, _, _, _, _)

\* The value that starts at the first non-blank character at or after i0.
JsonValueAt(s, i) ==
    IF i > Len(s) THEN ParseFail
    ELSE IF CharAt(s, i) = "{"
         THEN (IF SkipWs(s, i + 1) <= Len(s)
                  /\ CharAt(s, SkipWs(s, i + 1)) = "}"
               THEN ParseOk(JObj(<<>>), SkipWs(s, i + 1) + 1)
               ELSE JsonMembers(s, SkipWs(s, i + 1), <<>>))
    ELSE IF CharAt(s, i) = "["
         THEN (IF SkipWs(s, i + 1) <= Len(s)
                  /\ CharAt(s, SkipWs(s, i + 1)) = "]"
               THEN ParseOk(JArr(<<>>), SkipWs(s, i + 1) + 1)
               ELSE JsonElements(s, i + 1, <<>>))
    ELSE IF CharAt(s, i) = "\"" THEN JsonString(s, i + 1, "")
    ELSE IF FirstOf("-0123456789", CharAt(s, i), 1) # 0
         THEN JsonNumber(s, i, NumberEnd(s, i))
    ELSE JsonLiteral(s, i)

JsonValue(s, i0) == JsonValueAt(s, SkipWs(s, i0))

\* After the element r of an array: a comma and more elements, or "]".
JsonAfterElement(s, r, j, acc) ==
    IF ~r.ok \/ j > Len(s) THEN ParseFail
    ELSE IF CharAt(s, j) = "," THEN JsonElements(s, j + 1, Append(acc, r.v))
    ELSE IF CharAt(s, j) = "]" THEN ParseOk(JArr(Append(acc, r.v)), j + 1)
    ELSE ParseFail

JsonElementsFrom(s, r, acc) == JsonAfterElement(s, r, SkipWs(s, r.i), acc)

JsonElements(s, i, acc) == JsonElementsFrom(s, JsonValue(s, i), acc)

\* After the member k: r of an object: a comma and more members, or "}".
JsonAfterMember(s, k, r, j, acc) ==
    IF ~r.ok \/ j > Len(s) THEN ParseFail
    ELSE IF CharAt(s, j) = ","
         THEN JsonMembers(s, SkipWs(s, j + 1),
                          Append(acc, [k |-> k.v.s, v |-> r.v]))
    ELSE IF CharAt(s, j) = "}"
         THEN ParseOk(JObj(Append(acc, [k |-> k.v.s, v |-> r.v])), j + 1)
    ELSE ParseFail

JsonMemberValue(s, k, r, acc) == JsonAfterMember(s, k, r, SkipWs(s, r.i), acc)

\* After the key k of a member: a colon at c, then the value.
JsonAfterKey(s, k, c, acc) ==
    IF ~k.ok \/ c > Len(s) \/ CharAt(s, c) # ":" THEN ParseFail
    ELSE JsonMemberValue(s, k, JsonValue(s, c + 1), acc)

JsonMemberKey(s, k, acc) == JsonAfterKey(s, k, SkipWs(s, k.i), acc)

\* The members of an object from index i (not blank) on.
JsonMembers(s, i, acc) ==
    IF i > Len(s) \/ CharAt(s, i) # "\"" THEN ParseFail
    ELSE JsonMemberKey(s, JsonString(s, i + 1, ""), acc)

\* JSON.parse(text): ok is FALSE where it throws a SyntaxError.
JsonParseEnd(text, r) ==
    IF r.ok /\ SkipWs(text, r.i) > Len(text) THEN r ELSE ParseFail

JsonParse(text) == JsonParseEnd(text, JsonValue(text, 1))

\* accountClient.ts lines 25-31
safeJson(text) == IF JsonParse(text).ok THEN JsonParse(text).v ELSE JNull

(***************************************************************************)
(* report.ts                                                               *)
(***************************************************************************)
PATH_USER_BALANCE == "/openApi/swap/v2/user/balance"

PATH_USER_POSITIONS == "/openApi/swap/v2/user/positions"

PATH_USER_OPEN_ORDERS == "/openApi/swap/v2/user/openOrders"

\* typeof payload === "object"
TypeofObject(v) == v.t = "object" \/ v.t = "array" \/ v.t = "null"

\* isEnvelope without its Array.isArray test.
isEnvelope_ArraysPass(payload) == TypeofObject(payload) /\ payload.t # "null"

\* report.ts lines 15-17
isEnvelope(payload) ==
    TypeofObject(payload) /\ payload.t # "null" /\ payload.t # "array"

\* What a call of assertSuccess does: it throws error, or returns envelope.
AssertThrew(msg) == [threw |-> TRUE, error |-> msg, envelope |-> JUndefined]

AssertReturned(payload) == [threw |-> FALSE, error |-> "", envelope |-> payload]

\* A check that takes every code for a success.
IsFailureCode_Never(code) == FALSE

\* code !== undefined && code !== null && code !== 0 && code !== "0"
IsFailureCode(code) ==
    /\ code.t # "undefined"
    /\ code.t # "null"
    /\ ~(code.t = "number" /\ code.n = Zero)
    /\ ~(code.t = "string" /\ code.s = "0")

\* assertSuccess describing every failure by its code alone.
assertSuccess_CodeOnly(endpoint, payload) ==
    IF ~isEnvelope(payload)
    THEN AssertThrew(endpoint \o " returned an invalid response")
    ELSE IF IsFailureCode(JGet(payload, "code"))
    THEN AssertThrew(endpoint \o " error: "
                     \o JToString(JGet(payload, "code")))
    ELSE AssertReturned(payload)

\* report.ts lines 19-31
assertSuccess(endpoint, payload) ==
    IF ~isEnvelope(payload)
    THEN AssertThrew(endpoint \o " returned an invalid response")
    ELSE IF IsFailureCode(JGet(payload, "code"))
    THEN AssertThrew(endpoint \o " error: "
                     \o JToString(Coalesce(JGet(payload, "msg"),
                                  Coalesce(JGet(payload, "message"),
                                           JStr(JToString(JGet(payload, "code")))))))
    ELSE AssertReturned(payload)

\* envelope.data ?? null
DataOf(envelope) == Coalesce(JGet(envelope, "data"), JNull)

\* symbol ? { symbol } : {}
SymbolParams(symbol) == IF Falsy(symbol) THEN <<>> ELSE <<Pair("symbol", symbol)>>

PathOf(e) ==
    CASE e = "balance" -> PATH_USER_BALANCE
      [] e = "positions" -> PATH_USER_POSITIONS
      [] e = "open orders" -> PATH_USER_OPEN_ORDERS

ParamsOf(e, options) ==
    IF e = "balance" THEN <<>> ELSE SymbolParams(options.symbol)

\* getSigned up to its first await (accountClient.ts lines 47-70): the
\* promise is rejected at once, or the request is logged and handed to fetch.
\* The check of line 47 without its second operand.
CanSend_KeyOnly == apiKey # "" /\ hasFetch

CanSend == apiKey # "" /\ apiSecret # "" /\ hasFetch

SignedUrl(p, ps) ==
    BINGX_BASE \o p \o "?" \o signQuery(BaseParams(ps, now), apiSecret)

CallStarted ==
    IF ~(apiKey # "" /\ apiSecret # "")
    THEN [st |-> "rejected", status |-> 0, text |-> "",
          error |-> "BingX API credentials are not configured"]
    ELSE IF ~hasFetch
    THEN [st |-> "rejected", status |-> 0, text |-> "",
          error |-> "Global fetch API is not available in this runtime"]
    ELSE [st |-> "fetching", status |-> 0, text |-> "", error |-> ""]

Snapshot(balance, positions, openOrders) ==
    [settled |-> "resolved", error |-> "", balance |-> balance,
     positions |-> positions, openOrders |-> openOrders]

ReportRejected(msg) ==
    [settled |-> "rejected", error |-> msg, balance |-> JUndefined,
     positions |-> JUndefined, openOrders |-> JUndefined]

Asserted(a) == [called |-> TRUE, threw |-> a.threw, error |-> a.error]

(***************************************************************************)
(* fetchReport: one call, with the three getSigned calls it may make.      *)
(***************************************************************************)
\* What the exchange may answer to a request.
ReportBodies ==
    {"{\"code\":0,\"data\":[1]}",
     "{\"code\":\"0\"}",
     "{\"data\":{\"a\":1}}",
     "{\"code\":80001,\"msg\":\"insufficient margin\"}",
     "{\"code\":\"100400\",\"msg\":null,\"message\":\"wrong endpoint\"}",
     "{\"code\":null,\"data\":[]}",
     "<html>Bad Gateway</html>",
     "{\"code\":0,",
     "[]",
     "\"ok\"",
     "17",
     "null"}

ReportResponses ==
    {[status |-> 200, text |-> b] : b \in ReportBodies}
    \cup {[status |-> 502, text |-> "<html>Bad Gateway</html>"],
          [status |-> 500, text |-> "{\"code\":0,\"data\":[1]}"],
          [status |-> 500, text |-> "{\"data\":{\"a\":1}}"]}

ReportOptions ==
    [symbol : {Undefined, StrV("BTC-USDT")}, includeOpenOrders : BOOLEAN]

InitReport ==
    /\ rOptions \in ReportOptions
    /\ rCalls = [e \in Endpoints |-> NoCall]
    /\ rAsserted = [e \in Endpoints |-> NotAsserted]
    /\ rOutcome = NoReport
    /\ rpc = "start"
    /\ \E env \in {<<"key", "s3cr3t", TRUE>>, <<"", "s3cr3t", TRUE>>,
                    <<"key", "", TRUE>>, <<"key", "s3cr3t", FALSE>>} :
          apiKey = env[1] /\ apiSecret = env[2] /\ hasFetch = env[3]
    /\ params = <<>> /\ path = "" /\ now = Num(1700000123, 3)
    /\ sentQuery = "" /\ requests = <<>> /\ log = <<>> /\ signature = ""
    /\ outcome = NoOutcome /\ gpc = "idle"
    /\ FiltersIdle
    /\ SignQueryIdle
    /\ BesideClientIdle

\* Lines 44-50: both getSigned calls are made; Promise.all rejects with the
\* first rejection when the calls cannot be sent.
StartReport ==
    /\ rpc = "start"
    /\ rCalls' = [rCalls EXCEPT !["balance"] = CallStarted,
                                !["positions"] = CallStarted]
    /\ IF CanSend
       THEN /\ requests' = requests
                   \o <<SignedUrl(PATH_USER_BALANCE, <<>>),
                        SignedUrl(PATH_USER_POSITIONS,
                                  SymbolParams(rOptions.symbol))>>
            /\ log' = log
                   \o <<"-> GET "
                        \o redactSignature(SignedUrl(PATH_USER_BALANCE, <<>>)),
                        "-> GET "
                        \o redactSignature(
                               SignedUrl(PATH_USER_POSITIONS,
                                         SymbolParams(rOptions.symbol)))>>
            /\ rpc' = "awaitBoth"
            /\ UNCHANGED rOutcome
       ELSE /\ rOutcome' = ReportRejected(CallStarted.error)
            /\ rpc' = "done"
            /\ UNCHANGED <<requests, log>>
    /\ UNCHANGED <<rOptions, rAsserted, params, path, now, sentQuery,
                   signature, outcome, gpc, besideReport>>

\* A json field that is parsed from the bodies of successful statuses only.
ResponseJson_OkStatusOnly(call) ==
    IF call.status >= 400 THEN JNull ELSE safeJson(call.text)

\* accountClient.ts lines 75-79: the json field of the SignedResponse is
\* parsed from the text, whatever the status.
ResponseJson(call) == safeJson(call.text)

\* accountClient.ts lines 65-79: the exchange answers the request of call e.
CallResolves(e) ==
    /\ rCalls[e].st = "fetching"
    /\ \E r \in ReportResponses :
          /\ rCalls' = [rCalls EXCEPT ![e] =
                           [st |-> "resolved", status |-> r.status,
                            text |-> r.text, error |-> ""]]
          /\ log' = Append(log, "HTTP " \o NatToStr(r.status) \o " " \o r.text)
    /\ UNCHANGED <<rOptions, rAsserted, rOutcome, rpc, params, path, now,
                   sentQuery, requests, signature, outcome, gpc, besideReport>>

\* accountClient.ts lines 65-72: fetch fails.  The rejection of a call that
\* Promise.all awaits rejects fetchReport (lines 47-50).
CallRejects(e) ==
    /\ rCalls[e].st = "fetching"
    /\ rCalls' = [rCalls EXCEPT ![e] =
                     [st |-> "rejected", status |-> 0, text |-> "",
                      error |-> "fetch failed"]]
    /\ IF rpc = "awaitBoth"
       THEN rOutcome' = ReportRejected("fetch failed") /\ rpc' = "done"
       ELSE UNCHANGED <<rOutcome, rpc>>
    /\ UNCHANGED <<rOptions, rAsserted, params, path, now, sentQuery,
                   requests, log, signature, outcome, gpc, besideReport>>

\* The positions envelope examined before the balance envelope.
FirstThrown_PositionsFirst(b, p) == IF p.threw THEN p.error ELSE b.error

\* Lines 52-53 in their order: the error of the first assertSuccess that
\* throws.
FirstThrown(b, p) == IF b.threw THEN b.error ELSE p.error

\* Lines 52-53 fail: an assertSuccess throws.
AssertFails ==
    /\ rpc = "awaitBoth"
    /\ rCalls["balance"].st = "resolved"
    /\ rCalls["positions"].st = "resolved"
    /\ LET b == assertSuccess("balance", ResponseJson(rCalls["balance"]))
           p == assertSuccess("positions", ResponseJson(rCalls["positions"]))
       IN  /\ b.threw \/ p.threw
           /\ rAsserted' =
                 IF b.threw
                 THEN [rAsserted EXCEPT !["balance"] = Asserted(b)]
                 ELSE [rAsserted EXCEPT !["balance"] = Asserted(b),
                                        !["positions"] = Asserted(p)]
           /\ rOutcome' = ReportRejected(FirstThrown(b, p))
    /\ rpc' = "done"
    /\ UNCHANGED <<rOptions, rCalls, getSignedVars, besideReport>>

\* Lines 52-61, 69-73: both envelopes pass; the open orders are requested,
\* or the snapshot is returned without them.
AssertPasses ==
    /\ rpc = "awaitBoth"
    /\ rCalls["balance"].st = "resolved"
    /\ rCalls["positions"].st = "resolved"
    /\ LET b == assertSuccess("balance", ResponseJson(rCalls["balance"]))
           p == assertSuccess("positions", ResponseJson(rCalls["positions"]))
       IN  /\ ~b.threw /\ ~p.threw
           /\ rAsserted' = [rAsserted EXCEPT !["balance"] = Asserted(b),
                                             !["positions"] = Asserted(p)]
           /\ IF rOptions.includeOpenOrders
              THEN /\ rCalls' = [rCalls EXCEPT !["open orders"] = CallStarted]
                   /\ requests' =
                         Append(requests,
                                SignedUrl(PATH_USER_OPEN_ORDERS,
                                          SymbolParams(rOptions.symbol)))
                   /\ log' =
                         Append(log,
                                "-> GET "
                                \o redactSignature(
                                       SignedUrl(PATH_USER_OPEN_ORDERS,
                                                 SymbolParams(rOptions.symbol))))
                   /\ rpc' = "awaitOpenOrders"
                   /\ UNCHANGED rOutcome
              ELSE /\ rOutcome' = Snapshot(DataOf(b.envelope),
                                           DataOf(p.envelope), JUndefined)
                   /\ rpc' = "done"
                   /\ UNCHANGED <<rCalls, requests, log>>
    /\ UNCHANGED <<rOptions, params, path, now, sentQuery, signature,
                   outcome, gpc, besideReport>>

\* Lines 62-73: the open-orders call has settled; whatever it throws, or
\* assertSuccess throws on its response, is caught.
FinishReport ==
    /\ rpc = "awaitOpenOrders"
    /\ rCalls["open orders"].st \in {"resolved", "rejected"}
    /\ LET b == assertSuccess("balance", ResponseJson(rCalls["balance"]))
           p == assertSuccess("positions", ResponseJson(rCalls["positions"]))
           o == assertSuccess("open orders",
                              ResponseJson(rCalls["open orders"]))
       IN  IF rCalls["open orders"].st = "rejected"
           THEN /\ rOutcome' = Snapshot(DataOf(b.envelope), DataOf(p.envelope),
                                        JUndefined)
                /\ UNCHANGED rAsserted
           ELSE /\ rAsserted' = [rAsserted EXCEPT !["open orders"] = Asserted(o)]
                /\ rOutcome' =
                      Snapshot(DataOf(b.envelope), DataOf(p.envelope),
                               IF o.threw THEN JUndefined
                               ELSE DataOf(o.envelope))
    /\ rpc' = "done"
    /\ UNCHANGED <<rOptions, rCalls, getSignedVars, besideReport>>

NextReport ==
    \/ StartReport
    \/ \E e \in Endpoints : CallResolves(e)
    \/ \E e \in Endpoints : CallRejects(e)
    \/ AssertFails
    \/ AssertPasses
    \/ FinishReport

SpecReport == InitReport /\ [][NextReport]_vars

(***************************************************************************)
(* Properties of fetchReport (checked under SpecReport).  The bodies are   *)
(* told apart here by what they say, independently of the parser.          *)
(***************************************************************************)
\* Objects whose code is absent, 0 or "0".
AcceptedBodies ==
    {"{\"code\":0,\"data\":[1]}", "{\"code\":\"0\"}", "{\"data\":{\"a\":1}}"}

\* Objects with another code that say what went wrong: the description.
BusinessMessage ==
    [b \in {"{\"code\":80001,\"msg\":\"insufficient margin\"}",
            "{\"code\":\"100400\",\"msg\":null,\"message\":\"wrong endpoint\"}"}
     |-> IF b = "{\"code\":80001,\"msg\":\"insufficient margin\"}"
         THEN "insufficient margin" ELSE "wrong endpoint"]

\* Objects with another code.
OtherCodeBodies == DOMAIN BusinessMessage \cup {"{\"code\":null,\"data\":[]}"}

\* Bodies that are no JSON text.
UnparsableBodies == {"<html>Bad Gateway</html>", "{\"code\":0,"}

\* JSON texts of an array, a string, a number, null.
NonObjectBodies == {"[]", "\"ok\"", "17", "null"}

\* The response of call e has been handed to assertSuccess.
Examined(e) == rCalls[e].st = "resolved" /\ rAsserted[e].called

\* How many requests were handed to fetch for the path of call e.
RequestsFor(e) ==
    Cardinality({i \in 1..Len(requests) :
                    Contains(requests[i], PathOf(e) \o "?")})

SnapshotField(e) ==
    CASE e = "balance" -> rOutcome.balance
      [] e = "positions" -> rOutcome.positions
      [] e = "open orders" -> rOutcome.openOrders

\* C11: a payload is accepted if and only if it is an object whose code is
\* absent, 0 or "0"; an object with any other code makes assertSuccess fail
\* with "<endpoint> error: <description>", the description being the
\* envelope's msg, else its message.
C11_SuccessIffCodeAbsentOrZero ==
    \A e \in Endpoints :
        Examined(e) =>
            /\ ~rAsserted[e].threw <=> rCalls[e].text \in AcceptedBodies
            /\ rCalls[e].text \in OtherCodeBodies =>
                   StartsWith(rAsserted[e].error, e \o " error: ")
            /\ rCalls[e].text \in DOMAIN BusinessMessage =>
                   rAsserted[e].error
                       = e \o " error: " \o BusinessMessage[rCalls[e].text]

\* C12: a body that is no JSON text, or the JSON text of a non-object, makes
\* assertSuccess fail with "<endpoint> returned an invalid response", which
\* is not the form of a business failure; the response is not accepted and
\* the snapshot holds no field for it.
C12_InvalidBodyIsTransportFailure ==
    \A e \in Endpoints :
        (Examined(e)
         /\ rCalls[e].text \in UnparsableBodies \cup NonObjectBodies) =>
            /\ rAsserted[e].threw
            /\ rAsserted[e].error = e \o " returned an invalid response"
            /\ ~StartsWith(rAsserted[e].error, e \o " error: ")
            /\ SnapshotField(e) = JUndefined
            /\ e # "open orders" => rOutcome.settled = "rejected"

C12_Witness ==
    /\ rpc = "done"
    /\ rCalls["balance"].text = "{\"code\":0,\"data\":[1]}"
    /\ rCalls["positions"].text = "[]"
    /\ rAsserted["positions"].threw
    /\ rOutcome.error = "positions returned an invalid response"

\* C14: when fetchReport returns a snapshot, none of the requests it issued
\* was rejected, answered by an invalid body or answered with a non-zero
\* code.
C14_NoFailureSwallowed ==
    rOutcome.settled = "resolved" =>
        \A e \in Endpoints :
            /\ rCalls[e].st # "rejected"
            /\ rCalls[e].st = "resolved" =>
                   rCalls[e].text \notin
                       (UnparsableBodies \cup NonObjectBodies
                        \cup DOMAIN BusinessMessage)

\* C15: for an endpoint answered by an envelope with a non-zero code, one
\* request and no more was sent, and the error assertSuccess raises for it
\* carries the envelope's message; for the balance and the positions it is
\* the error fetchReport rejects with.
C15_BusinessFailureNotRetried ==
    \A e \in Endpoints :
        (rCalls[e].st = "resolved"
         /\ rCalls[e].text \in DOMAIN BusinessMessage) =>
            /\ RequestsFor(e) = 1
            /\ rAsserted[e].called =>
                   /\ rAsserted[e].threw
                   /\ rAsserted[e].error
                          = e \o " error: " \o BusinessMessage[rCalls[e].text]
                   /\ e # "open orders" =>
                          rOutcome = ReportRejected(rAsserted[e].error)

C15_Witness ==
    /\ rpc = "done"
    /\ rCalls["balance"].text = "{\"code\":80001,\"msg\":\"insufficient margin\"}"
    /\ rCalls["positions"].st = "resolved"
    /\ RequestsFor("balance") = 1
    /\ rOutcome.error = "balance error: insufficient margin"

(***************************************************************************)
(* errors.ts                                                               *)
(***************************************************************************)
PATH_ORDER == "/openApi/swap/v2/trade/order"

UpperChar(c) ==
    LET i == FirstOf("abcdefghijklmnopqrstuvwxyz", c, 1)
    IN  IF i = 0 THEN c ELSE CharAt("ABCDEFGHIJKLMNOPQRSTUVWXYZ", i)

\* String.prototype.toUpperCase over the alphabet
RECURSIVE Upper(_)
Upper(s) == IF s = "" THEN "" ELSE UpperChar(Head(s)) \o Upper(Tail(s))

\* errors.ts lines 5-7
isObject(value) ==
    TypeofObject(value) /\ value.t # "null" /\ value.t # "array"

\* Lines 9-12; method is a string or undefined
normaliseMethod(method) ==
    IF Upper(Trim(IF method.t = "undefined" THEN "" ELSE method.s)) = ""
    THEN "GET"
    ELSE Upper(Trim(method.s))

\* Lines 14-18
normaliseTarget(url, requestPath) ==
    IF url.t = "string" /\ Len(url.s) > 0 THEN url.s
    ELSE IF requestPath.t = "string" /\ Len(requestPath.s) > 0
    THEN requestPath.s
    ELSE "<unknown>"

\* value === undefined || value === null || `${value}` === "" ? "" : String(value)
DetailText(value) ==
    IF value.t = "undefined" \/ value.t = "null" THEN "" ELSE JToString(value)

\* Lines 20-38
extractDetails(payload) ==
    IF isObject(payload)
    THEN [code |-> DetailText(JGet(payload, "code")),
          message |-> DetailText(Coalesce(JGet(payload, "msg"),
                                          JGet(payload, "message")))]
    ELSE IF payload.t = "string" /\ Len(Trim(payload.s)) > 0
    THEN [code |-> "", message |-> payload.s]
    ELSE [code |-> "", message |-> ""]

\* text.replace(/\/+$/, "")
RECURSIVE StripTrailingSlashes(_)
StripTrailingSlashes(text) ==
    IF text # "" /\ CharAt(text, Len(text)) = "/"
    THEN StripTrailingSlashes(SubSeq(text, 1, Len(text) - 1))
    ELSE text

\* Index of the last character of the run of non-slash characters from i on
\* (i - 1 when there is none).
HostEnd(text, i) ==
    IF FirstOf(text, "/", i) = 0 THEN Len(text) ELSE FirstOf(text, "/", i) - 1

\* Length of the match of /^https?:\/\//i at the start of text, 0 if none.
SchemeLen(text) ==
    IF Len(text) >= 7 /\ Lower(SubSeq(text, 1, 7)) = "http://" THEN 7
    ELSE IF Len(text) >= 8 /\ Lower(SubSeq(text, 1, 8)) = "https://" THEN 8
    ELSE 0

\* text.replace(/^https?:\/\/[^/]+/i, "")
StripOrigin(text) ==
    IF SchemeLen(text) = 0 \/ HostEnd(text, SchemeLen(text) + 1) <= SchemeLen(text)
    THEN text
    ELSE SubSeq(text, HostEnd(text, SchemeLen(text) + 1) + 1, Len(text))

\* Lines 56-57: (options.requestPath ?? url ?? "") with both replacements
NormalisedPath(url, requestPath) ==
    StripOrigin(StripTrailingSlashes(
        IF requestPath.t = "string" THEN requestPath.s
        ELSE IF url.t = "string" THEN url.s
        ELSE ""))

\* Line 59
RoutingHint ==
    "\nHint: use POST " \o BINGX_BASE \o PATH_ORDER
    \o " with x-www-form-urlencoded."

\* Lines 49-54: the line without the hint (its arrow is written -> here).
ErrorLine(methodToken, target, detail) ==
    "Failed to contact BingX: " \o methodToken \o " " \o target
    \o (IF Len(detail) > 0 THEN " -> " \o detail ELSE "")

\* Lines 40-63
formatBingxError(method, url, payload, requestPath) ==
    ErrorLine(normaliseMethod(method), normaliseTarget(url, requestPath),
              Trim(extractDetails(payload).code \o " "
                   \o extractDetails(payload).message))
    \o (IF NormalisedPath(url, requestPath) = PATH_ORDER THEN RoutingHint
        ELSE "")

(***************************************************************************)
(* formatBingxError applied to the failure of one request.                 *)
(***************************************************************************)
Methods == {Undefined, StrV("post"), StrV(" GET "), StrV("")}

\* Ways of writing the trade-order path, and other paths.
OrderTargets ==
    {"/openApi/swap/v2/trade/order",
     "/openApi/swap/v2/trade/order/",
     "/openApi/swap/v2/trade/order//",
     "https://open-api.bingx.com/openApi/swap/v2/trade/order",
     "HTTP://localhost:8080/openApi/swap/v2/trade/order/"}

OtherTargets ==
    {"/openApi/swap/v2/user/balance",
     "https://open-api.bingx.com/openApi/swap/v2/trade/order?symbol=BTC-USDT",
     "https://open-api.bingx.com/openApi/swap/v2/trade/setLeverage",
     "openApi/swap/v2/trade/order",
     ""}

Targets == {StrV(t) : t \in OrderTargets \cup OtherTargets} \cup {Undefined}

\* Payloads whose code is the wrong-endpoint code 100400, and others.
WrongEndpointPayloads ==
    {JObj(<<[k |-> "code", v |-> JNum(Num(100400, 0))],
            [k |-> "msg", v |-> JStr("this api is not exist")]>>),
     JObj(<<[k |-> "code", v |-> JStr("100400")]>>)}

OtherPayloads ==
    {JUndefined, JNull, JStr("boom"), JStr(" "), JObj(<<>>),
     JObj(<<[k |-> "code", v |-> JNum(Num(80001, 0))],
            [k |-> "msg", v |-> JStr("insufficient margin")]>>),
     JObj(<<[k |-> "code", v |-> JNum(Zero)],
            [k |-> "message", v |-> JStr("100400")]>>),
     JObj(<<[k |-> "msg", v |-> JNull],
            [k |-> "message", v |-> JStr("rate limited")]>>)}

FormatArgs ==
    [method : Methods, url : Targets, payload : WrongEndpointPayloads
                                                  \cup OtherPayloads,
     requestPath : {Undefined, StrV("/openApi/swap/v2/trade/order"),
                    StrV("/openApi/swap/v2/trade/order/"),
                    StrV("/openApi/swap/v2/user/balance")}]

InitFormat ==
    /\ feArgs \in FormatArgs
    /\ feOut = ""
    /\ fepc = "start"
    /\ FiltersIdle
    /\ SignQueryIdle
    /\ EnvIdle
    /\ GetSignedIdle
    /\ ReportIdle
    /\ MessageIdle
    /\ MonitorIdle
    /\ EngineIdle

FormatError ==
    /\ fepc = "start"
    /\ feOut' = formatBingxError(feArgs.method, feArgs.url, feArgs.payload,
                                 feArgs.requestPath)
    /\ fepc' = "formatted"
    /\ UNCHANGED <<feArgs, besideFormat>>

NextFormat == FormatError

SpecFormat == InitFormat /\ [][NextFormat]_vars

(***************************************************************************)
(* Properties of formatBingxError (checked under SpecFormat).              *)
(***************************************************************************)
\* The path the failure is about: options.requestPath, else the url.
FailingPath ==
    IF feArgs.requestPath.t = "string" THEN feArgs.requestPath.s
    ELSE IF feArgs.url.t = "string" THEN feArgs.url.s
    ELSE ""

HasHint == Contains(feOut, "\nHint: use POST ")

\* C13: the routing hint is appended if and only if the failing path is the
\* trade-order path and the payload's code is 100400.
C13_HintIffOrderPathAndWrongEndpoint ==
    fepc = "formatted" =>
        (HasHint <=> (FailingPath \in OrderTargets
                      /\ feArgs.payload \in WrongEndpointPayloads))

(***************************************************************************)
(* getSigned with the steps that the code itself takes scheduled fairly;   *)
(* whether and when the exchange answers is left to the exchange.          *)
(***************************************************************************)
\* SendRequest is the only step from "start" once both guards have passed,
\* and it always leaves "start": this is ENABLED <<SendRequest>>_vars.
SendRequestEnabled == gpc = "start" /\ CanSend

\* Weak fairness of the three steps of lines 47-70; for SendRequest it is
\* written out, with the enabling condition above.
SpecSignedFair ==
    /\ SpecSigned
    /\ WF_vars(RejectNoCredentials)
    /\ WF_vars(RejectNoFetch)
    /\ ([]<>~SendRequestEnabled \/ []<><<SendRequest>>_vars)

\* C16: a getSigned call never hands more than 3 requests to fetch, and a
\* call that ends in a transport failure (fetch rejecting, or a body that is
\* no JSON) has made all 3 attempts.
C16_TransportFailureRetriedUpToBudget ==
    /\ Len(requests) <= 3
    /\ (\/ gpc = "rejected" /\ outcome.error = "fetch failed"
        \/ gpc = "resolved" /\ outcome.text = "<html>Bad Gateway</html>")
           => Len(requests) = 3

\* C17: every getSigned call eventually completes, whether or not the
\* exchange answers.
C17_GetSignedEventuallyCompletes == <>(gpc \in {"resolved", "rejected"})

(***************************************************************************)
(* The signal message (src/unnamed/part_001).  A Date is the record of its *)
(* local fields, M being getMonth() (0 for January); opts.timestamp is <<>>*)
(* when absent and <<date>> when given.                                    *)
(***************************************************************************)
\* The intent without toUpperCase.
emojiAndTitle_CaseSensitive(intent) ==
    IF intent = "LONG_OPEN" THEN [emoji |-> "E1", title |-> "Buy"]
    ELSE IF intent = "SHORT_OPEN" THEN [emoji |-> "E2", title |-> "Sell"]
    ELSE IF intent = "LONG_CLOSE" THEN [emoji |-> "E3", title |-> "Close Long"]
    ELSE IF intent = "SHORT_CLOSE"
         THEN [emoji |-> "E4", title |-> "Close Short"]
    ELSE [emoji |-> "E3", title |-> "Signal"]

\* Lines 6-19.  The four emoji literals of the source are written E1..E4
\* (LONG_CLOSE and the default share one literal).
emojiAndTitle(intent) ==
    IF Upper(intent) = "LONG_OPEN" THEN [emoji |-> "E1", title |-> "Buy"]
    ELSE IF Upper(intent) = "SHORT_OPEN"
         THEN [emoji |-> "E2", title |-> "Sell"]
    ELSE IF Upper(intent) = "LONG_CLOSE"
         THEN [emoji |-> "E3", title |-> "Close Long"]
    ELSE IF Upper(intent) = "SHORT_CLOSE"
         THEN [emoji |-> "E4", title |-> "Close Short"]
    ELSE [emoji |-> "E3", title |-> "Signal"]

\* A value used as a condition
Truthy(v) ==
    \/ v.t = "boolean" /\ v.s = "true"
    \/ v.t = "string" /\ v.s # ""
    \/ v.t = "number" /\ v.n.k # "nan" /\ v.n # Zero

\* Lines 21-23
autoTradeStr(on) == IF Truthy(on) THEN "On" ELSE "Off"

\* n.toString().padStart(2, "0")
Pad2(n) == Repeat("0", 2 - Len(NatToStr(n))) \o NatToStr(n)

\* Lines 25-35, dt being d ?? new Date()
tsStr(dt) ==
    NatToStr(dt.Y) \o "-" \o Pad2(dt.M + 1) \o "-" \o Pad2(dt.D) \o " "
        \o Pad2(dt.h) \o ":" \o Pad2(dt.m) \o ":" \o Pad2(dt.s)

\* The integer nearest to m / 10^d, the larger one of two equally near.
RoundedShift(m, d) ==
    IF d > NumDigits(m) THEN 0
    ELSE (m + 5 * Pow10Int(d - 1)) \div Pow10Int(d)

\* The digits of the integer nearest to m * 10^(e + f).
FixedDigits(m, e, f) ==
    IF e + f >= 0 THEN NatToStr(m) \o (IF m = 0 THEN "" ELSE Repeat("0", e + f))
    ELSE NatToStr(RoundedShift(m, -(e + f)))

\* The digits ds with a decimal point before the last f of them.
PointBefore(ds, f) ==
    IF Len(ds) <= f
    THEN "0." \o Repeat("0", f - Len(ds)) \o ds
    ELSE SubSeq(ds, 1, Len(ds) - f) \o "." \o SubSeq(ds, Len(ds) - f + 1, Len(ds))

\* Number.prototype.toFixed(f), f > 0: Number::toString from 10^21 on.
ToFixed(x, f) ==
    IF x.k # "fin" \/ (x.m # 0 /\ NumDigits(x.m) + x.e > 21)
    THEN NumToString(x)
    ELSE (IF x.neg /\ x.m # 0 THEN "-" ELSE "")
         \o PointBefore(FixedDigits(x.m, x.e, f), f)

\* Index of the last "." of s, 0 if none.
LastDot(s) ==
    IF \E i \in 1..Len(s) : CharAt(s, i) = "."
    THEN CHOOSE i \in 1..Len(s) :
            /\ CharAt(s, i) = "."
            /\ \A j \in (i + 1)..Len(s) : CharAt(s, j) # "."
    ELSE 0

RECURSIVE StripTrailingZeros(_)
StripTrailingZeros(s) ==
    IF s # "" /\ CharAt(s, Len(s)) = "0"
    THEN StripTrailingZeros(SubSeq(s, 1, Len(s) - 1)) ELSE s

\* replace(/\.0+$/, ""): a point followed by zeros alone, up to the end.
DropZeroFraction(s, dot) ==
    IF /\ dot > 0 /\ dot < Len(s)
       /\ \A j \in (dot + 1)..Len(s) : CharAt(s, j) = "0"
    THEN SubSeq(s, 1, dot - 1) ELSE s

\* replace(/(\.\d*?)0+$/, "$1"): zeros ending a fraction of digits.
DropFractionZeros(s, dot) ==
    IF /\ dot > 0 /\ dot < Len(s)
       /\ AllDigits(SubSeq(s, dot + 1, Len(s)))
       /\ CharAt(s, Len(s)) = "0"
    THEN SubSeq(s, 1, dot) \o StripTrailingZeros(SubSeq(s, dot + 1, Len(s)))
    ELSE s

\* replace(/\.$/, "")
DropFinalDot(s) ==
    IF s # "" /\ CharAt(s, Len(s)) = "." THEN SubSeq(s, 1, Len(s) - 1) ELSE s

AfterZeroFraction(s) == DropFractionZeros(s, LastDot(s))

Trimmed(s) == DropFinalDot(AfterZeroFraction(DropZeroFraction(s, LastDot(s))))

\* Lines 37-42
formatNumber(value) ==
    IF value.t = "number" THEN Trimmed(ToFixed(value.n, 10)) ELSE value.s

\* A destructuring default: = d
OrDefault(v, d) == IF v.t = "undefined" THEN d ELSE v

\* Margin and Quantity both pushed (the second if without its else).
SizeLines_Both(o) ==
    (IF o.marginUSDT.t = "number"
     THEN <<"Margin: " \o formatNumber(o.marginUSDT) \o " USDT">> ELSE <<>>)
    \o (IF Truthy(o.quantity)
        THEN <<"Quantity: " \o ToStr(o.quantity)>> ELSE <<>>)

\* Lines 75-79
SizeLines(o) ==
    IF o.marginUSDT.t = "number"
    THEN <<"Margin: " \o formatNumber(o.marginUSDT) \o " USDT">>
    ELSE IF Truthy(o.quantity) THEN <<"Quantity: " \o ToStr(o.quantity)>>
    ELSE <<>>

\* Lines 81-83
LeverageLines(o) ==
    IF o.leverage.t = "number"
    THEN <<"Leverage: " \o formatNumber(o.leverage) \o "x">> ELSE <<>>

\* Lines 87-93: intent.includes("CLOSE") looks at the intent as given.
TypeLine(o) ==
    IF Contains(o.intent, "CLOSE")
    THEN "Exit Type: " \o ToStr(OrDefault(o.orderType, StrV("Market")))
             \o (IF Truthy(OrDefault(o.reduceOnly, BoolV(FALSE)))
                 THEN " (Reduce Only)" ELSE "")
    ELSE "Entry Type: " \o ToStr(OrDefault(o.orderType, StrV("Market")))

\* Lines 71-73
HeadLines(o) ==
    <<emojiAndTitle(o.intent).emoji \o " SIGNAL - "
          \o emojiAndTitle(o.intent).title,
      "------------------------",
      "Asset: " \o o.symbol>>

\* Lines 85-96
TailLines(o, today) ==
    <<"Auto-trade: " \o autoTradeStr(OrDefault(o.autoTrade, BoolV(FALSE))),
      TypeLine(o),
      "Position Side: " \o ToStr(OrDefault(o.positionSide, StrV("LONG"))),
      "Timestamp: "
          \o tsStr(IF o.timestamp = <<>> THEN today ELSE o.timestamp[1])>>

\* Lines 44-100; today is what new Date() gives.
buildSignalMessage(o, today) ==
    Join(HeadLines(o) \o SizeLines(o) \o LeverageLines(o)
             \o TailLines(o, today), "\n")

(***************************************************************************)
(* buildSignalMessage applied to one signal.                               *)
(***************************************************************************)
Intents ==
    {"LONG_OPEN", "short_open", "Long_Close", "long_close", "SHORT_CLOSE",
     "HOLD", "CLOSE", ""}

Dates == {[Y |-> 2024, M |-> 0, D |-> 5, h |-> 9, m |-> 3, s |-> 7]}

Margins ==
    {Undefined, NumV(Num(50, 0)), NumV(Num(125, -1)), NumV(Zero), NumV(NaN),
     NumV(Num(4, -11))}

Leverages == {Undefined, NumV(Num(10, 0)), NumV(Num(25, -1))}

Quantities == {Undefined, StrV(""), StrV("0.010")}

SignalOpts ==
    [symbol : {"BTC-USDT"}, intent : Intents,
     orderType : {Undefined, StrV("Limit")},
     positionSide : {Undefined, StrV("SHORT")},
     autoTrade : {Undefined, BoolV(TRUE)},
     leverage : Leverages, marginUSDT : Margins, quantity : Quantities,
     reduceOnly : {Undefined, BoolV(TRUE)},
     timestamp : {<<>>} \cup {<<d>> : d \in Dates}]

InitMessage ==
    /\ smOpts \in SignalOpts
    /\ smNow = [Y |-> 2026, M |-> 1, D |-> 28, h |-> 0, m |-> 0, s |-> 0]
    /\ smOut = ""
    /\ smpc = "start"
    /\ FiltersIdle
    /\ SignQueryIdle
    /\ EnvIdle
    /\ GetSignedIdle
    /\ ReportIdle
    /\ FormatIdle
    /\ MonitorIdle
    /\ EngineIdle

BuildMessage ==
    /\ smpc = "start"
    /\ smOut' = buildSignalMessage(smOpts, smNow)
    /\ smpc' = "built"
    /\ UNCHANGED <<smOpts, smNow, besideMessage>>

NextMessage == BuildMessage

SpecMessage == InitMessage /\ [][NextMessage]_vars

(***************************************************************************)
(* Properties of buildSignalMessage (checked under SpecMessage).           *)
(***************************************************************************)
\* The ways of writing each intent among the inputs.
BuyIntents == {"LONG_OPEN", "long_open", "Long_Open"}

SellIntents == {"SHORT_OPEN", "short_open", "Short_Open"}

CloseLongIntents == {"LONG_CLOSE", "long_close", "Long_Close"}

CloseShortIntents == {"SHORT_CLOSE", "short_close", "Short_Close"}

ExpectedTitle(intent) ==
    IF intent \in BuyIntents THEN "Buy"
    ELSE IF intent \in SellIntents THEN "Sell"
    ELSE IF intent \in CloseLongIntents THEN "Close Long"
    ELSE IF intent \in CloseShortIntents THEN "Close Short"
    ELSE "Signal"

MessageLines == Split(smOut, "\n")

\* What follows " SIGNAL - " on a line.
TitleOf(line) ==
    IF \E i \in 1..(Len(line) - 9) : SubSeq(line, i, i + 9) = " SIGNAL - "
    THEN SubSeq(line,
                (CHOOSE i \in 1..(Len(line) - 9) :
                    /\ SubSeq(line, i, i + 9) = " SIGNAL - "
                    /\ \A j \in 1..(i - 1) :
                          SubSeq(line, j, j + 9) # " SIGNAL - ") + 10,
                Len(line))
    ELSE "<no title>"

\* C18: the title of the first line is fixed by the intent, read
\* case-insensitively: Buy, Sell, Close Long, Close Short, else Signal.
C18_TitleByIntent ==
    smpc = "built" =>
        \A first \in {MessageLines[1]} :
            TitleOf(first) = ExpectedTitle(smOpts.intent)

C18_Witness ==
    /\ smpc = "built"
    /\ smOpts.intent = "short_open"
    /\ MessageLines[1] = "E2 SIGNAL - Sell"

\* What a line of the message is, read off its text.
LineKind(line) ==
    IF Contains(line, " SIGNAL - ") THEN "header"
    ELSE IF line = "------------------------" THEN "separator"
    ELSE IF StartsWith(line, "Asset: ") THEN "Asset"
    ELSE IF StartsWith(line, "Margin: ") THEN "Margin"
    ELSE IF StartsWith(line, "Quantity: ") THEN "Quantity"
    ELSE IF StartsWith(line, "Leverage: ") THEN "Leverage"
    ELSE IF StartsWith(line, "Auto-trade: ") THEN "Auto-trade"
    ELSE IF StartsWith(line, "Entry Type: ") \/ StartsWith(line, "Exit Type: ")
         THEN "Type"
    ELSE IF StartsWith(line, "Position Side: ") THEN "Position Side"
    ELSE IF StartsWith(line, "Timestamp: ") THEN "Timestamp"
    ELSE "other"

RECURSIVE KindsOf(_)
KindsOf(ls) ==
    IF ls = <<>> THEN <<>>
    ELSE <<CHOOSE k \in {LineKind(l) : l \in {Head(ls)}} : TRUE>>
             \o KindsOf(Tail(ls))

HasKind(kinds, kind) == \E i \in 1..Len(kinds) : kinds[i] = kind

NumericMargin == smOpts.marginUSDT \in Margins \ {Undefined}

NonEmptyQuantity == smOpts.quantity = StrV("0.010")

\* C19: a Margin line exactly when marginUSDT is a number, a Quantity line
\* exactly when it is not and quantity is non-empty, and the lines in the
\* order header, separator, Asset, Margin/Quantity, Leverage, Auto-trade,
\* Entry/Exit Type, Position Side, Timestamp.
C19_MarginXorQuantityInFixedOrder ==
    smpc = "built" =>
        \A kinds \in {KindsOf(MessageLines)} :
            /\ HasKind(kinds, "Margin") <=> NumericMargin
            /\ HasKind(kinds, "Quantity")
                   <=> (~NumericMargin /\ NonEmptyQuantity)
            /\ kinds =
                   <<"header", "separator", "Asset">>
                   \o (IF NumericMargin THEN <<"Margin">>
                       ELSE IF NonEmptyQuantity THEN <<"Quantity">> ELSE <<>>)
                   \o (IF HasKind(kinds, "Leverage")
                       THEN <<"Leverage">> ELSE <<>>)
                   \o <<"Auto-trade", "Type", "Position Side", "Timestamp">>

C19_Witness ==
    /\ smpc = "built"
    /\ smOpts.marginUSDT = NumV(Num(125, -1))
    /\ smOpts.quantity = StrV("0.010")
    /\ smOpts.leverage = NumV(Num(10, 0))
    /\ \A ls \in {MessageLines} :
          /\ ls[4] = "Margin: 12.5 USDT"
          /\ ls[5] = "Leverage: 10x"
          /\ \A i \in 1..Len(ls) : ~StartsWith(ls[i], "Quantity: ")

(***************************************************************************)
(* PositionProtectionMonitor (specification, sections 3 and 4.6), for one  *)
(* position.  Prices are whole ticks, quantities whole steps, percentages  *)
(* whole percents; an optional value is <<>> when absent and <<v>> when    *)
(* present.                                                                *)
(***************************************************************************)
\* Largest epoch a position is followed to.
MaxEpoch == 3

\* 4.6 step 1: the move of the mark price from entryPrice, positive when
\* favorable, as a percentage multiplied by entryPrice.
FavorableMove(p, price) ==
    IF p.positionSide = "LONG" THEN (price - p.entryPrice) * 100
    ELSE (p.entryPrice - price) * 100

\* favorable move >= pct
MoveReaches(p, price, pct) == FavorableMove(p, price) >= pct * p.entryPrice

\* A stop-loss that is never checked.
StopLossHit_Never(p, price) == FALSE

\* 4.6 step 2: adverse move magnitude >= slPercent
StopLossHit(p, price) ==
    /\ p.slPercent # <<>>
    /\ -FavorableMove(p, price) >= p.slPercent[1] * p.entryPrice

\* A stage that is never looked at before submission.
StageArmed_Always(stage, epoch) == TRUE

\* Section 3: armed for the current epoch iff triggeredAtEpoch # epoch.
StageArmed(stage, epoch) == stage.triggeredAtEpoch # <<epoch>>

\* sellPercent of the remaining quantity, floored to whole steps.
StageQuantity(quantity, stage) == (quantity * stage.sellPercent) \div 100

\* A reduce-only market order; stage is 0 for the stop-loss.
ProtectiveOrder(kind, stage, epoch, quantity) ==
    [kind |-> kind, stage |-> stage, epoch |-> epoch, quantity |-> quantity,
     type |-> "MARKET", reduceOnly |-> TRUE]

\* 4.6 step 3: the stages from the i-th on, in configured order; sent is what
\* this update has submitted so far.
RECURSIVE FireStages(_, _, _, _)
FireStages(p, price, i, sent) ==
    IF i > Len(p.tpStages) \/ p.quantity = 0
    THEN [position |-> p, sent |-> sent]
    ELSE IF /\ StageArmed(p.tpStages[i], p.epoch)
            /\ MoveReaches(p, price, p.tpStages[i].movePercent)
         THEN FireStages(
                  [p EXCEPT !.quantity = @ - StageQuantity(@, p.tpStages[i]),
                            !.tpStages[i].triggeredAtEpoch = <<p.epoch>>],
                  price, i + 1,
                  Append(sent,
                         ProtectiveOrder("TP", i, p.epoch,
                                         StageQuantity(p.quantity,
                                                       p.tpStages[i]))))
         ELSE FireStages(p, price, i + 1, sent)

\* 4.6 step 5
AfterStages(r) ==
    [position |-> r.position,
     status |-> IF r.position.quantity = 0 THEN "FLAT" ELSE "ACTIVE",
     sent |-> r.sent]

\* 4.6 steps 1-3 and 5: the transition rule on one update.
Evaluate(p, price) ==
    IF StopLossHit(p, price)
    THEN [position |-> [p EXCEPT !.quantity = 0], status |-> "STOPPED",
          sent |-> <<ProtectiveOrder("SL", 0, p.epoch, p.quantity)>>]
    ELSE AfterStages(FireStages(p, price, 1, <<>>))

\* 4.6 step 4: a fill reported with entryPrice entry and quantity qty.
Refilled(p, entry, qty) ==
    [p EXCEPT !.entryPrice = entry, !.quantity = qty,
              !.epoch = IF entry # p.entryPrice THEN @ + 1 ELSE @]

Stage(move, sell) ==
    [movePercent |-> move, sellPercent |-> sell, triggeredAtEpoch |-> <<>>]

\* The stages of scenario D, and a first stage that sells everything.
StageConfigs ==
    {<<Stage(5, 40), Stage(9, 50)>>, <<Stage(5, 100), Stage(9, 50)>>}

MarkPrices == {90, 97, 100, 106, 110, 120}

EntryPrices == {100, 110}

FillQuantities == {100, 150}

InitMonitor ==
    /\ position \in
           [positionSide : {"LONG", "SHORT"}, entryPrice : {100},
            quantity : {100}, tpStages : StageConfigs,
            slPercent : {<<>>, <<3>>}, epoch : {1}]
    /\ pstate = "ACTIVE"
    /\ markPrice = 100
    /\ orders = <<>>
    /\ FiltersIdle
    /\ SignQueryIdle
    /\ EnvIdle
    /\ GetSignedIdle
    /\ ReportIdle
    /\ FormatIdle
    /\ MessageIdle
    /\ EngineIdle

\* The outcome r of the transition rule at mark price price takes effect.
Settle(r, price) ==
    /\ position' = r.position
    /\ pstate' = r.status
    /\ markPrice' = price
    /\ orders' = orders \o r.sent
    /\ UNCHANGED besideMonitor

\* A price update, in whatever order the updates are delivered.
PriceUpdate ==
    /\ pstate = "ACTIVE"
    /\ \E price \in MarkPrices : Settle(Evaluate(position, price), price)

\* A position update: a fill that may change entryPrice.
PositionUpdate ==
    /\ pstate = "ACTIVE"
    /\ \E entry \in EntryPrices, qty \in FillQuantities :
          /\ entry # position.entryPrice => position.epoch < MaxEpoch
          /\ Settle(Evaluate(Refilled(position, entry, qty), markPrice),
                    markPrice)

NextMonitor == PriceUpdate \/ PositionUpdate

SpecMonitor == InitMonitor /\ [][NextMonitor]_vars

(***************************************************************************)
(* Properties of the monitor (checked under SpecMonitor).                  *)
(***************************************************************************)
\* The take-profit orders submitted for stage i in epoch e.
TakeProfitOrders(i, e) ==
    {k \in 1..Len(orders) :
        orders[k].kind = "TP" /\ orders[k].stage = i /\ orders[k].epoch = e}

\* C20: for every stage, at most one take-profit order is submitted in each
\* epoch, and a stage with no order in the current epoch (every stage, right
\* after a fill has incremented the epoch) is armed.
C20_StageOncePerEpoch ==
    \A i \in 1..Len(position.tpStages) :
        /\ \A e \in 1..MaxEpoch : Cardinality(TakeProfitOrders(i, e)) <= 1
        /\ TakeProfitOrders(i, position.epoch) = {}
               => position.tpStages[i].triggeredAtEpoch # <<position.epoch>>

\* The first stage has fired in epoch 1 and again in epoch 2.
C20_Witness ==
    /\ position.epoch = 2
    /\ TakeProfitOrders(1, 1) # {}
    /\ TakeProfitOrders(1, 2) # {}

\* The mark price has moved against the position by slPercent or more.
AdverseReached(p, price) ==
    /\ p.slPercent # <<>>
    /\ IF p.positionSide = "LONG"
       THEN (p.entryPrice - price) * 100 >= p.slPercent[1] * p.entryPrice
       ELSE (price - p.entryPrice) * 100 >= p.slPercent[1] * p.entryPrice

\* C21: an update of an active position at which the adverse move reaches
\* slPercent submits exactly one order, a reduce-only market stop-loss for
\* the whole remaining quantity (on a price update, the quantity held
\* before it), and stops the position; once stopped, nothing more is
\* submitted and the position stays stopped.
C21_StopLossFirstAndTerminal ==
    [][/\ (pstate = "ACTIVE" /\ AdverseReached(position', markPrice')) =>
              /\ pstate' = "STOPPED"
              /\ Len(orders') = Len(orders) + 1
              /\ SubSeq(orders', 1, Len(orders)) = orders
              /\ orders'[Len(orders')].kind = "SL"
              /\ orders'[Len(orders')].type = "MARKET"
              /\ orders'[Len(orders')].reduceOnly
              /\ markPrice' # markPrice
                     => orders'[Len(orders')].quantity = position.quantity
       /\ pstate = "STOPPED" => (pstate' = "STOPPED" /\ orders' = orders)
      ]_vars

\* A take-profit stage fired, then the stop-loss sold the remaining 60.
C21_Witness ==
    /\ pstate = "STOPPED"
    /\ Len(orders) = 2
    /\ orders[1].kind = "TP"
    /\ orders[2].kind = "SL" /\ orders[2].quantity = 60

(***************************************************************************)
(* DeduplicationGuard (specification, section 4.4).  Times are seconds.    *)
(***************************************************************************)
\* The default window of shouldProcess, in seconds.
DefaultWindow == 30

\* The seconds between two readings of the clock.
TickSeconds == 10

\* The last time alerts are followed to, and how many of them.
MaxTime == 60

MaxAlerts == 3

\* key = (symbol, intent, barTime or alertId)
AlertKeys ==
    {[symbol |-> "BTC-USDT", intent |-> "LONG_OPEN", id |-> "bar-1"],
     [symbol |-> "BTC-USDT", intent |-> "LONG_OPEN", id |-> "bar-2"],
     [symbol |-> "ETH-USDT", intent |-> "LONG_OPEN", id |-> "bar-1"]}

\* A lookup that forgets every recorded key.
Unexpired_None(seen, t) == {}

\* Expired entries are evicted lazily on lookup.
Unexpired(seen, t) == {e \in seen : e.expiry > t}

\* The answer, and the key set after the call.
GuardResult(answer, seen) == [answer |-> answer, seen |-> seen]

\* shouldProcess(key, window) at time t: one atomic lookup and insertion.
shouldProcess(seen, key, window, t) ==
    IF \E e \in Unexpired(seen, t) : e.key = key
    THEN GuardResult(FALSE, Unexpired(seen, t))
    ELSE GuardResult(TRUE, Unexpired(seen, t)
                               \cup {[key |-> key, expiry |-> t + window]})

InitDedup ==
    /\ dgSeen = {}
    /\ dgNow = 0
    /\ dgLog = <<>>
    /\ dgOrders = <<>>
    /\ CodeIdle
    /\ MonitorIdle
    /\ SizerIdle
    /\ QueueIdle

\* The guard has answered r for an alert with this key: a true answer lets
\* the alert go on to its order submission, a false one ends it there.
Handled(key, r) ==
    /\ dgSeen' = r.seen
    /\ dgLog' = Append(dgLog, [key |-> key, at |-> dgNow, answer |-> r.answer])
    /\ dgOrders' = IF r.answer
                   THEN Append(dgOrders, [key |-> key, at |-> dgNow])
                   ELSE dgOrders
    /\ UNCHANGED <<dgNow, besideDedup>>

\* An alert arrives.
Alert ==
    /\ Len(dgLog) < MaxAlerts
    /\ \E key \in AlertKeys :
          Handled(key, shouldProcess(dgSeen, key, DefaultWindow, dgNow))

\* Time passes.
Tick ==
    /\ dgNow < MaxTime
    /\ dgNow' = dgNow + TickSeconds
    /\ UNCHANGED <<dgSeen, dgLog, dgOrders, besideDedup>>

NextDedup == Alert \/ Tick

SpecDedup == InitDedup /\ [][NextDedup]_vars

(***************************************************************************)
(* Properties of the guard (checked under SpecDedup).                      *)
(***************************************************************************)
\* The earlier calls with the key of call j that were answered true.
AcceptedBefore(j) ==
    {i \in 1..(j - 1) : dgLog[i].key = dgLog[j].key /\ dgLog[i].answer}

WasAccepted(call) == call.answer

\* C22: a call whose key was accepted less than the window before is
\* answered false, a call whose key was never accepted, or only more than
\* the window before, is answered true, and the order submissions are
\* exactly the calls answered true, one each: a duplicate adds none.
C22_OneSubmissionPerKeyAndWindow ==
    /\ \A j \in 1..Len(dgLog) :
          /\ (\E i \in AcceptedBefore(j) :
                 dgLog[j].at - dgLog[i].at < DefaultWindow)
                 => ~dgLog[j].answer
          /\ (\A i \in AcceptedBefore(j) :
                 dgLog[j].at - dgLog[i].at > DefaultWindow)
                 => dgLog[j].answer
    /\ \A sel \in {SelectSeq(dgLog, WasAccepted)} :
          dgOrders = [i \in 1..Len(sel) |->
                         [key |-> sel[i].key, at |-> sel[i].at]]

\* The same key at 0 s, again at 20 s (suppressed) and again at 40 s.
C22_Witness ==
    /\ Len(dgLog) = 3
    /\ \A j \in 1..3 : dgLog[j].key = dgLog[1].key
    /\ dgLog[1].at = 0 /\ dgLog[1].answer
    /\ dgLog[2].at = 20 /\ ~dgLog[2].answer
    /\ dgLog[3].at = 40 /\ dgLog[3].answer
    /\ Len(dgOrders) = 2

(***************************************************************************)
(* QuantitySizer (specification, section 4.3), sizing from the margin.     *)
(* A decimal is m * 10^e, kept exactly.                                    *)
(***************************************************************************)
Dec(m, e) == [m |-> m, e |-> e]

DecMul(a, b) == Dec(a.m * b.m, a.e + b.e)

\* The mantissa of a at the exponent e (e <= a.e).
Aligned(a, e) == a.m * Pow10Int(a.e - e)

LowerExp(a, b) == IF a.e < b.e THEN a.e ELSE b.e

DecLeq(a, b) == Aligned(a, LowerExp(a, b)) <= Aligned(b, LowerExp(a, b))

DecLess(a, b) == Aligned(a, LowerExp(a, b)) < Aligned(b, LowerExp(a, b))

\* The number of whole steps rounded up instead of down.
FloorSteps_RoundsUp(amount, step) ==
    (Aligned(amount, LowerExp(amount, step)) + Aligned(step, LowerExp(amount, step)) - 1)
        \div Aligned(step, LowerExp(amount, step))

\* How many whole steps fit in amount: the floor of amount / step, in decimal
\* arithmetic.
FloorSteps(amount, step) ==
    Aligned(amount, LowerExp(amount, step)) \div Aligned(step, LowerExp(amount, step))

SizingError == [ok |-> FALSE, quantity |-> Dec(0, 0)]

Sized(quantity) == [ok |-> TRUE, quantity |-> quantity]

\* The floored quantity, or the error when it is zero or below minQty.
SizeOrFail(quantity, minQty) ==
    IF quantity.m = 0 \/ DecLess(quantity, minQty) THEN SizingError
    ELSE Sized(quantity)

\* size(signal, filters, markPrice, defaults) without signal.quantity:
\* raw = (marginUsdt x leverage) / markPrice floored to a multiple of
\* stepSize.  raw / stepSize is taken as (marginUsdt x leverage) over
\* (markPrice x stepSize), which is exact.
size(in) ==
    SizeOrFail(
        DecMul(Dec(FloorSteps(DecMul(in.marginUsdt, in.leverage),
                              DecMul(in.markPrice, in.stepSize)), 0),
               in.stepSize),
        in.minQty)

SizingInputs ==
    [marginUsdt : {Dec(100, 0), Dec(5, -1), Dec(3333, -2)},
     leverage : {Dec(1, 0), Dec(10, 0)},
     markPrice : {Dec(50000, 0), Dec(37, -2), Dec(3, 0)},
     stepSize : {Dec(1, -3), Dec(1, 0), Dec(5, -1)},
     minQty : {Dec(1, -3), Dec(1, 0), Dec(5, 0)}]

InitSizer ==
    /\ szIn \in SizingInputs
    /\ szOut = ""
    /\ szpc = "start"
    /\ CodeIdle
    /\ MonitorIdle
    /\ DedupIdle
    /\ QueueIdle

Size ==
    /\ szpc = "start"
    /\ szOut' = size(szIn)
    /\ szpc' = "sized"
    /\ UNCHANGED <<szIn, besideSizer>>

NextSizer == Size

SpecSizer == InitSizer /\ [][NextSizer]_vars

(***************************************************************************)
(* Properties of the sizer (checked under SpecSizer).                      *)
(***************************************************************************)
\* The budget: marginUsdt x leverage.
Budget == DecMul(szIn.marginUsdt, szIn.leverage)

\* q is a whole number of steps.
MultipleOfStep(q) ==
    Aligned(q, LowerExp(q, szIn.stepSize))
        % Aligned(szIn.stepSize, LowerExp(q, szIn.stepSize)) = 0

\* The smallest quantity that may be returned: the least positive multiple
\* of stepSize that is not below minQty.
LeastSteps ==
    IF DecLeq(szIn.minQty, szIn.stepSize) THEN 1
    ELSE (Aligned(szIn.minQty, LowerExp(szIn.minQty, szIn.stepSize))
          + Aligned(szIn.stepSize, LowerExp(szIn.minQty, szIn.stepSize)) - 1)
         \div Aligned(szIn.stepSize, LowerExp(szIn.minQty, szIn.stepSize))

ScenarioB ==
    szIn.marginUsdt = Dec(100, 0) /\ szIn.leverage = Dec(10, 0)
    /\ szIn.markPrice = Dec(50000, 0) /\ szIn.stepSize = Dec(1, -3)
    /\ szIn.minQty = Dec(1, -3)

\* C23: a returned quantity is a positive multiple of stepSize, not below
\* minQty, and its cost at the mark price does not exceed margin x leverage;
\* the sizer fails exactly when even the least admissible quantity exceeds
\* that budget; margin 100, leverage 10, price 50000, step 0.001 give 0.02.
C23_SizedWithinBudget ==
    szpc = "sized" =>
        /\ szOut.ok =>
              /\ szOut.quantity.m > 0
              /\ MultipleOfStep(szOut.quantity)
              /\ DecLeq(szIn.minQty, szOut.quantity)
              /\ DecLeq(DecMul(szOut.quantity, szIn.markPrice), Budget)
        /\ ~szOut.ok <=>
              DecLess(Budget,
                      DecMul(DecMul(Dec(LeastSteps, 0), szIn.stepSize),
                             szIn.markPrice))
        /\ ScenarioB =>
              /\ szOut.ok
              /\ DecLeq(szOut.quantity, Dec(2, -2))
              /\ DecLeq(Dec(2, -2), szOut.quantity)

C23_Witness ==
    /\ szpc = "sized"
    /\ ScenarioB
    /\ szOut = Sized(Dec(20, -3))

(***************************************************************************)
(* Per-symbol serialisation of order submissions (specification,           *)
(* section 5): one queue and one worker per symbol.                        *)
(***************************************************************************)
\* How many submissions are followed.
MaxJobs == 4

Symbols == {"BTC-USDT", "ETH-USDT"}

\* Alert processing and protection monitoring.
Origins == {"alert", "monitor"}

Job(id, symbol, origin) == [id |-> id, symbol |-> symbol, origin |-> origin]

\* A worker that does not look at what is in flight.
SymbolFree_Always(inFlight, symbol) == TRUE

\* The per-symbol lock: no submission for the symbol is in flight.
SymbolFree(inFlight, symbol) == \A j \in inFlight : j.symbol # symbol

InitQueue ==
    /\ qQueue = [s \in Symbols |-> <<>>]
    /\ qInFlight = {}
    /\ qIssued = 0
    /\ CodeIdle
    /\ MonitorIdle
    /\ DedupIdle
    /\ SizerIdle

\* Alert processing or the monitor asks for an order submission.
RequestSubmission ==
    /\ qIssued < MaxJobs
    /\ \E s \in Symbols, o \in Origins :
          qQueue' = [qQueue EXCEPT ![s] = Append(@, Job(qIssued + 1, s, o))]
    /\ qIssued' = qIssued + 1
    /\ UNCHANGED <<qInFlight, besideQueue>>

\* The worker of a symbol sends the oldest waiting submission.
StartSubmission ==
    /\ \E s \in Symbols :
          /\ qQueue[s] # <<>>
          /\ SymbolFree(qInFlight, s)
          /\ qInFlight' = qInFlight \cup {Head(qQueue[s])}
          /\ qQueue' = [qQueue EXCEPT ![s] = Tail(@)]
    /\ UNCHANGED <<qIssued, besideQueue>>

\* The exchange has answered a submission.
FinishSubmission ==
    /\ \E j \in qInFlight : qInFlight' = qInFlight \ {j}
    /\ UNCHANGED <<qQueue, qIssued, besideQueue>>

NextQueue == RequestSubmission \/ StartSubmission \/ FinishSubmission

SpecQueue == InitQueue /\ [][NextQueue]_vars

(***************************************************************************)
(* Properties of the serialisation (checked under SpecQueue).              *)
(***************************************************************************)
\* C24: two submissions in flight at the same moment are never for the same
\* symbol, whichever of alert processing and monitoring they come from.
C24_OneInFlightPerSymbol ==
    \A j \in qInFlight, k \in qInFlight : j.symbol = k.symbol => j = k

\* Two symbols in flight at once, one submission from an alert and one from
\* the monitor, while a further submission for one of the symbols waits.
C24_Witness ==
    /\ \E j \in qInFlight, k \in qInFlight :
          /\ j.symbol # k.symbol
          /\ j.origin = "alert" /\ k.origin = "monitor"
          /\ qQueue[j.symbol] # <<>>

(***************************************************************************)
(* Further properties of fetchReport (checked under SpecReport).           *)
(***************************************************************************)
\* Bodies that assertSuccess lets through.
PassingBodies == AcceptedBodies \cup {"{\"code\":null,\"data\":[]}"}

\* getSigned has been called for endpoint e.
Called(e) == rCalls[e].st # "none"

ExpectedData(body) ==
    IF body = "{\"code\":0,\"data\":[1]}" THEN JArr(<<JNum(Num(1, 0))>>)
    ELSE IF body = "{\"data\":{\"a\":1}}"
         THEN JObj(<<[k |-> "a", v |-> JNum(Num(1, 0))]>>)
    ELSE IF body = "{\"code\":null,\"data\":[]}" THEN JArr(<<>>)
    ELSE JNull

Mandatory == {"balance", "positions"}

\* C26: a snapshot is returned only when the balance and the positions
\* responses both arrived with passing bodies, and it holds their data; once
\* fetchReport has settled with either of them rejected or answered by a
\* body that does not pass, it has rejected and holds no snapshot field; and
\* when both bodies fail the check, the error is the balance one.
C26_NoPartialSnapshot ==
    /\ rOutcome.settled = "resolved" =>
          \A e \in Mandatory :
              /\ rCalls[e].st = "resolved"
              /\ rCalls[e].text \in PassingBodies
              /\ SnapshotField(e) = ExpectedData(rCalls[e].text)
    /\ rpc = "done" => rOutcome.settled \in {"resolved", "rejected"}
    /\ rOutcome.settled = "rejected" =>
          \A e \in Endpoints : SnapshotField(e) = JUndefined
    /\ (rpc = "done"
        /\ \A e \in Mandatory :
              rCalls[e].st = "resolved" /\ rCalls[e].text \notin PassingBodies)
          => /\ rOutcome.settled = "rejected"
             /\ StartsWith(rOutcome.error, "balance ")

\* Both envelopes carry a failure; the balance one is reported.
C26_Witness ==
    /\ rpc = "done"
    /\ rCalls["balance"].text = "{\"code\":80001,\"msg\":\"insufficient margin\"}"
    /\ rCalls["positions"].text = "[]"
    /\ rOutcome = ReportRejected("balance error: insufficient margin")

(***************************************************************************)
(* Further properties of getSigned (checked under SpecSigned).             *)
(***************************************************************************)
CallerSets(k) == \E i \in 1..Len(params) : params[i].k = k

\* Among the pairs ps, the pair of key k is there and every pair of key k
\* is the pair k=v.
OnlyPair(ps, k, v) ==
    /\ \E i \in 1..Len(ps) : ps[i] = k \o "=" \o v
    /\ \A i \in 1..Len(ps) : PairKey(ps[i]) = k => ps[i] = k \o "=" \o v

\* The timestamp and recvWindow pairs of the sent query are the injected
\* ones and no others.
InjectedAlone ==
    \A ps \in {Split(sentQuery, "&")} :
        /\ OnlyPair(ps, "timestamp", NumToString(now))
        /\ OnlyPair(ps, "recvWindow", RECV_WINDOW)

\* C27 as stated: whenever the caller's params hold a timestamp or a
\* recvWindow key, the query sent carries the injected values for them and
\* not the caller's.
C27_InjectedValuesAlwaysWin ==
    (requests # <<>> /\ (CallerSets("timestamp") \/ CallerSets("recvWindow")))
        => InjectedAlone

\* C27 as amended: the same, for params whose keys and values hold no "&"
\* and no "=".
C27_InjectedValuesWinForPlainParams ==
    (/\ requests # <<>>
     /\ CallerSets("timestamp") \/ CallerSets("recvWindow")
     /\ SeparatorFree(params))
        => InjectedAlone

\* The caller gave both keys; the query carries 5000 and the clock's value.
C27_Witness ==
    /\ gpc = "fetching"
    /\ params = <<Pair("recvWindow", StrV("9")),
                  Pair("timestamp", NumV(Num(1, 0)))>>
    /\ now = Num(1700000123, 3)
    /\ StartsWith(sentQuery,
                  "recvWindow=5000&timestamp=1700000123000&signature=")

(***************************************************************************)
(* The account client as a whole: a run is one getSigned call made         *)
(* directly, or one fetchReport call with the getSigned calls it makes.    *)
(***************************************************************************)
InitAccount == InitSigned \/ InitReport

NextAccount ==
    \/ NextSigned
    \/ NextReport

SpecAccount == InitAccount /\ [][NextAccount]_vars

NoCredentialsError == "BingX API credentials are not configured"

\* C28: with the API key or the API secret missing nothing is ever signed,
\* logged or sent; a getSigned call that has left its start is rejected with
\* the credentials error, and so is a fetchReport call, none of whose
\* getSigned calls got as far as a request.
C28_NoCredentialsNothingLeaves ==
    ~(apiKey # "" /\ apiSecret # "") =>
        /\ requests = <<>> /\ log = <<>>
        /\ signature = "" /\ sentQuery = ""
        /\ gpc \notin {"idle", "start"} =>
              /\ gpc = "rejected"
              /\ outcome = Rejected(NoCredentialsError)
        /\ rpc \notin {"idle", "start"} =>
              /\ rpc = "done"
              /\ rOutcome = ReportRejected(NoCredentialsError)
              /\ rCalls["balance"].st = "rejected"
              /\ rCalls["positions"].st = "rejected"
              /\ rCalls["open orders"] = NoCall

\* fetchReport was called with a key and no secret, and has been rejected.
C28_Witness ==
    /\ apiKey = "key" /\ apiSecret = "" /\ hasFetch
    /\ rpc = "done"
    /\ rOutcome = ReportRejected(NoCredentialsError)
    /\ requests = <<>>

(***************************************************************************)
(* Further properties of buildSignalMessage (checked under SpecMessage).   *)
(***************************************************************************)
ClosingTitles == {"Close Long", "Close Short"}

\* C29: the message has an "Exit Type" line exactly when its title is
\* "Close Long" or "Close Short" and an "Entry Type" line otherwise, and
\* "(Reduce Only)" stands only on an Exit Type line.
C29_TitleAndTypeLineAgree ==
    smpc = "built" =>
        \A ls \in {MessageLines} :
            /\ (\E i \in 1..Len(ls) : StartsWith(ls[i], "Exit Type: "))
                   <=> TitleOf(ls[1]) \in ClosingTitles
            /\ (\E i \in 1..Len(ls) : StartsWith(ls[i], "Entry Type: "))
                   <=> TitleOf(ls[1]) \notin ClosingTitles
            /\ \A i \in 1..Len(ls) :
                  Contains(ls[i], "(Reduce Only)")
                      => StartsWith(ls[i], "Exit Type: ")

(***************************************************************************)
(* Further properties of the account client (checked under SpecAccount).   *)
(***************************************************************************)
RejectionErrors ==
    {NoCredentialsError, "Global fetch API is not available in this runtime",
     "fetch failed"}

\* C30: success and failure are decided by the body alone.  getSigned is
\* rejected only for missing credentials, a missing fetch or a failed
\* transport, and resolves with the status and text it received whatever the
\* status; assertSuccess throws on a response exactly when its body is not a
\* passing one, so that two responses with the same body are judged alike
\* whatever their statuses.
C30_JudgedByBodyAlone ==
    /\ gpc = "resolved" =>
          /\ outcome.settled = "resolved"
          /\ outcome.status \in Statuses /\ outcome.text \in Bodies
    /\ gpc = "rejected" =>
          /\ outcome.settled = "rejected"
          /\ outcome.error \in RejectionErrors
    /\ \A e \in Endpoints :
          rAsserted[e].called =>
              /\ rCalls[e].st = "resolved"
              /\ rAsserted[e].threw <=> rCalls[e].text \notin PassingBodies
    /\ \A e1, e2 \in Endpoints :
          (/\ rAsserted[e1].called /\ rAsserted[e2].called
           /\ rCalls[e1].text = rCalls[e2].text)
              => rAsserted[e1].threw = rAsserted[e2].threw

\* Both mandatory requests were answered with status 500, one with a code 0
\* envelope and one with an envelope without a code, and fetchReport returned
\* the snapshot.
C30_Witness ==
    /\ rpc = "done"
    /\ rOutcome.settled = "resolved"
    /\ rCalls["balance"].status = 500
    /\ rCalls["balance"].text = "{\"code\":0,\"data\":[1]}"
    /\ rCalls["positions"].status = 500
    /\ rCalls["positions"].text = "{\"data\":{\"a\":1}}"
    /\ ~rAsserted["balance"].threw /\ ~rAsserted["positions"].threw

====
